---------------------------- MODULE Spec2Model ----------------------------
(***************************************************************************)
(* A model of the drama_calendar scrapers: the text normalizers            *)
(* (drama_weekly.py, episode_bild.py, workspace/drama_2025_fin.py,         *)
(* workspace/drama_calendar_2025.py), the worker pool of drama_person.py   *)
(* and the start-up checks of the batch scripts.                           *)
(*                                                                         *)
(* Text is a sequence of characters.  A character is a one-element string  *)
(* for ASCII (" ", ":", "~", "1") and a romanised name for everything      *)
(* else:                                                                   *)
(*   O JEON HU  오 전 후      BAM 밤    SI 시   BUN 분   GAN 간            *)
(*   WOL 월  HWA 화  YO 요  IL 일  NYEON 년   GA 가 (any other Hangul)     *)
(*   SEU PE SYEOL 스 페 셜   JA JEONG 자 정   SAE BYEOK 새 벽               *)
(*   JEO NYEOK 저 녁   NAT 낮   NEUJ EUN 늦 은   SU MOK GEUM TO 수 목 금 토 *)
(*   YE 예   JANG REU 장 르   BANG SONG SA 방 송 사   CHAE NEOL 채 널      *)
(*   GUK 국   DA EUM 다 음   I JI 이 지   BEOM JOE 범 죄   RO MAEN 로 맨    *)
(*   GONG PO 공 포                                                         *)
(*   LDA RDA 《 》   LSA RSA 〈 〉   LGU RGU « »   LCB RCB 「 」            *)
(*   LWC RWC 『 』   ENDASH –   EMDASH —                                   *)
(*   TAB NL CR NBSP  whitespace    NUL  the control character \x00          *)
(***************************************************************************)
EXTENDS Integers, Sequences, FiniteSets, TLC

VARIABLES
    pc,        \* position of the running script or call
    text,      \* the argument of the function under call
    result,    \* its return value
    rows,      \* the rows a script has collected (main's list "rows")
    outfile,   \* the CSV file the script writes: None until written
    today,     \* date.today() of the run
    items,     \* drama_person.main: the items of the list page
    futs,      \* drama_person.main: the futures of the submitted scrapes
    yielded,   \* the futures as_completed has handed to the main thread
    script,    \* the script that was started
    columns,   \* the header of each CSV file the script reads
    exit_status, \* the exit status of the process: <<>> while it runs
    web,       \* what the site answers to a request for each document
    frame,     \* the local variables of the function under way
    fs         \* the files on disk: the content of each path that exists

callVars == <<text, result>>
tableVars == <<rows, outfile, today>>
poolVars == <<items, futs, yielded>>
procVars == <<script, columns, exit_status>>
ioVars == <<web, frame, fs>>
vars == <<pc, text, result, rows, outfile, today, items, futs, yielded,
          script, columns, exit_status, web, frame, fs>>

None == "None"

(***************************************************************************)
(* Character classes of Python's re for str patterns.                      *)
(***************************************************************************)
Digit == {"0", "1", "2", "3", "4", "5", "6", "7", "8", "9"}
Space == {" ", "TAB", "NL", "CR", "NBSP"}
Hangul == {"O", "JEON", "HU", "BAM", "SI", "BUN", "GAN", "WOL", "HWA", "YO",
           "IL", "NYEON", "GA", "SEU", "PE", "SYEOL", "JA", "JEONG", "SAE", "YE",
           "BYEOK", "JEO", "NYEOK", "NAT", "NEUJ", "EUN", "SU", "MOK", "GEUM",
           "TO", "JANG", "REU", "BANG", "SONG", "SA", "CHAE", "NEOL", "GUK",
           "DA", "EUM", "I", "JI", "BEOM", "JOE", "RO", "MAEN", "GONG", "PO"}
Latin == {"a", "m", "p", "A", "M", "P", "n", "N", "o", "e"}
Glyph == {"LDA", "RDA", "LSA", "RSA", "LGU", "RGU", "LCB", "RCB", "LWC", "RWC"}
Punct == {":", "~", "-", ".", "[", "]", "<", ">", "'", "ENDASH", "EMDASH", ",", ";"}
Ctrl == {"NUL"}
Char == Digit \cup Space \cup Hangul \cup Latin \cup Glyph \cup Punct \cup Ctrl
Word == Digit \cup Hangul \cup Latin
Dot == Char \ {"NL"}

(***************************************************************************)
(* Regular expressions as syntax trees, matched the way Python's           *)
(* backtracking matcher does: M(re, s, i) is the sequence of all ways re   *)
(* matches s from position i, in the matcher's order of preference; each   *)
(* is <<end position, captured groups>>.  The first element is the match   *)
(* re.match reports.                                                       *)
(***************************************************************************)
NGroups == 6
NoGroup == <<0, 0>>
NoCaps == [k \in 1..NGroups |-> NoGroup]

Eps == [t |-> "eps"]
In(S) == [t |-> "set", s |-> S]
Lit(c) == In({c})
Cat(a, b) == [t |-> "cat", a |-> a, b |-> b]
Alt(a, b) == [t |-> "alt", a |-> a, b |-> b]
Star(a) == [t |-> "star", a |-> a]
Lazy(a) == [t |-> "lazy", a |-> a]
Grp(n, a) == [t |-> "grp", n |-> n, a |-> a]
Eol == [t |-> "eol"]
Bnd == [t |-> "bnd"]
Plus(a) == Cat(a, Star(a))
Opt(a) == Alt(a, Eps)

RECURSIVE CatAll(_)
CatAll(rs) == IF Len(rs) = 0 THEN Eps
              ELSE IF Len(rs) = 1 THEN rs[1]
              ELSE Cat(rs[1], CatAll(Tail(rs)))

RECURSIVE AltAll(_)
AltAll(rs) == IF Len(rs) = 1 THEN rs[1] ELSE Alt(rs[1], AltAll(Tail(rs)))

\* a literal word
RECURSIVE Str(_)
Str(w) == IF Len(w) = 0 THEN Eps
          ELSE IF Len(w) = 1 THEN Lit(w[1])
          ELSE Cat(Lit(w[1]), Str(Tail(w)))

MergeCaps(c1, c2) == [k \in 1..NGroups |-> IF c2[k] # NoGroup THEN c2[k] ELSE c1[k]]

IsWordAt(s, i) == i >= 1 /\ i <= Len(s) /\ s[i] \in Word

RECURSIVE M(_, _, _), Then(_, _, _)
M(re, s, i) ==
    CASE re.t = "eps" -> << <<i, NoCaps>> >>
      [] re.t = "set" -> IF i <= Len(s) /\ s[i] \in re.s
                         THEN << <<i + 1, NoCaps>> >> ELSE <<>>
      [] re.t = "eol" -> IF i = Len(s) + 1 \/ (i = Len(s) /\ s[i] = "NL")
                         THEN << <<i, NoCaps>> >> ELSE <<>>
      [] re.t = "bnd" -> IF IsWordAt(s, i - 1) # IsWordAt(s, i)
                         THEN << <<i, NoCaps>> >> ELSE <<>>
      [] re.t = "cat" -> Then(M(re.a, s, i), re.b, s)
      [] re.t = "alt" -> M(re.a, s, i) \o M(re.b, s, i)
      [] re.t = "star" ->
            Then(SelectSeq(M(re.a, s, i), LAMBDA m : m[1] > i), re, s)
                \o << <<i, NoCaps>> >>
      [] re.t = "lazy" ->
            << <<i, NoCaps>> >>
                \o Then(SelectSeq(M(re.a, s, i), LAMBDA m : m[1] > i), re, s)
      [] re.t = "grp" ->
            LET ms == M(re.a, s, i)
            IN  [k \in DOMAIN ms |->
                    <<ms[k][1],
                      [ms[k][2] EXCEPT ![re.n] = <<i, ms[k][1]>>]>>]
Then(ms, b, s) ==
    IF ms = <<>> THEN <<>>
    ELSE LET h == Head(ms)
             rest == M(b, s, h[1])
         IN  [k \in DOMAIN rest |-> <<rest[k][1], MergeCaps(h[2], rest[k][2])>>]
                 \o Then(Tail(ms), b, s)

\* re.search: the leftmost match; found is FALSE where Python returns None
NoMatch == [found |-> FALSE, start |-> 0, end |-> 0, caps |-> NoCaps]
RECURSIVE SearchFrom(_, _, _)
SearchFrom(re, s, i) ==
    IF i > Len(s) + 1 THEN NoMatch
    ELSE LET ms == M(re, s, i)
         IN  IF ms # <<>>
             THEN [found |-> TRUE, start |-> i, end |-> ms[1][1], caps |-> ms[1][2]]
             ELSE SearchFrom(re, s, i + 1)
ReSearch(re, s) == SearchFrom(re, s, 1)

\* re.findall / re.finditer: the matches from left to right, none overlapping
RECURSIVE FindAllFrom(_, _, _)
FindAllFrom(re, s, i) ==
    LET m == SearchFrom(re, s, i)
    IN  IF ~m.found THEN <<>>
        ELSE <<m>> \o FindAllFrom(re, s, IF m.end > m.start THEN m.end ELSE m.end + 1)
ReFindAll(re, s) == FindAllFrom(re, s, 1)

\* m.group(k) is not None
HasGroup(m, k) == m.caps[k] # NoGroup
\* m.group(k): the captured text (empty when the group did not take part)
Group(m, s, k) == IF m.caps[k] = NoGroup THEN <<>>
                  ELSE SubSeq(s, m.caps[k][1], m.caps[k][2] - 1)

\* re.sub(re, repl, s) for a pattern that matches no empty string
RECURSIVE SubFrom(_, _, _, _)
SubFrom(re, repl, s, i) ==
    IF i > Len(s) THEN <<>>
    ELSE LET ms == M(re, s, i)
         IN  IF ms # <<>> /\ ms[1][1] > i
             THEN repl \o SubFrom(re, repl, s, ms[1][1])
             ELSE <<s[i]>> \o SubFrom(re, repl, s, i + 1)
ReSub(re, repl, s) == SubFrom(re, repl, s, 1)

\* str.strip(): whitespace off both ends
RECURSIVE LStrip(_, _)
LStrip(s, cs) == IF s # <<>> /\ Head(s) \in cs THEN LStrip(Tail(s), cs) ELSE s
RECURSIVE RStrip(_, _)
RStrip(s, cs) == IF s # <<>> /\ s[Len(s)] \in cs
                 THEN RStrip(SubSeq(s, 1, Len(s) - 1), cs) ELSE s
StripChars(s, cs) == RStrip(LStrip(s, cs), cs)
Strip(s) == StripChars(s, Space)

Contains(s, c) == \E i \in DOMAIN s : s[i] = c

HasDigit(s) == \E i \in DOMAIN s : s[i] \in Digit

\* int(): the value of a string of digits
DigitVal(c) == CASE c = "0" -> 0 [] c = "1" -> 1 [] c = "2" -> 2 [] c = "3" -> 3
                 [] c = "4" -> 4 [] c = "5" -> 5 [] c = "6" -> 6 [] c = "7" -> 7
                 [] c = "8" -> 8 [] c = "9" -> 9
RECURSIVE IntOf(_)
IntOf(ds) == IF ds = <<>> THEN 0
             ELSE 10 * IntOf(SubSeq(ds, 1, Len(ds) - 1)) + DigitVal(ds[Len(ds)])

\* str() of a natural number
DigitChar(d) == CASE d = 0 -> "0" [] d = 1 -> "1" [] d = 2 -> "2" [] d = 3 -> "3"
                  [] d = 4 -> "4" [] d = 5 -> "5" [] d = 6 -> "6" [] d = 7 -> "7"
                  [] d = 8 -> "8" [] d = 9 -> "9"
RECURSIVE StrOf(_)
StrOf(n) == IF n < 10 THEN <<DigitChar(n)>>
            ELSE Append(StrOf(n \div 10), DigitChar(n % 10))

(***************************************************************************)
(* drama_weekly.py                                                         *)
(***************************************************************************)
RE_footnote == CatAll(<<Lit("["), Star(In(Char \ {"]"})), Lit("]")>>)
RE_spaces == Plus(In(Space))

clean_text(s) ==
    IF s = <<>> THEN <<>>
    ELSE Strip(ReSub(RE_spaces, <<" ">>, ReSub(RE_footnote, <<>>, s)))

RE_title_glyphs == In({"LDA", "RDA", "LSA", "RSA", "LCB", "RCB", "LWC", "RWC",
                       "LGU", "RGU", "<", ">"})
RE_double_angle == Alt(Str(<<"<", "<">>), Str(<<">", ">">>))

strip_brackets_drop_closing(title) ==
    IF title = <<>> THEN <<>>
    ELSE Strip(ReSub(RE_spaces, <<" ">>,
               ReSub(RE_double_angle, <<>>,
               ReSub(In({"LDA", "RDA", "LSA", "RSA", "LCB", "RCB", "LWC", "'",
                         "LGU", "RGU", "<", ">"}), <<>>, title))))

strip_brackets(title) ==
    IF title = <<>> THEN <<>>
    ELSE Strip(ReSub(RE_spaces, <<" ">>,
               ReSub(RE_double_angle, <<>>,
               ReSub(RE_title_glyphs, <<>>, title))))

\* ---- broadcast time ----
W_ojeon == <<"O", "JEON">>
W_ohu == <<"O", "HU">>
W_bam == <<"BAM">>
W_saebyeok == <<"SAE", "BYEOK">>
W_jeonyeok == <<"JEO", "NYEOK">>
W_nat == <<"NAT">>
W_neujeunbam == <<"NEUJ", "EUN", "BAM">>
W_jajeong == <<"JA", "JEONG">>
W_jeongo == <<"JEONG", "O">>
W_am12 == <<"O", "JEON", " ", "1", "2", "SI">>
W_pm12 == <<"O", "HU", " ", "1", "2", "SI">>

Sp == Star(In(Space))
RE_12si == CatAll(<<Sp, Str(<<"1", "2">>), Sp, Lit("SI")>>)

normalize_special_words(s) ==
    LET t1 == ReSub(Cat(Str(W_bam), RE_12si), W_am12, s)
        t2 == ReSub(Cat(Str(W_jajeong), RE_12si), W_am12, t1)
        t3 == ReSub(CatAll(<<Bnd, Str(W_jajeong), Bnd>>), W_am12, t2)
        t4 == ReSub(Cat(Str(W_jeongo), RE_12si), W_pm12, t3)
    IN  ReSub(CatAll(<<Bnd, Str(W_jeongo), Bnd>>), W_pm12, t4)

\* word is a captured marker (has = FALSE for None)
detect_ampm(has, word) ==
    IF ~has \/ word = <<>> THEN None
    ELSE LET w == Strip(word)
         IN  IF w \in {W_ojeon, <<"A", "M">>, <<"a", "m">>, W_saebyeok} THEN "AM"
             ELSE IF w \in {W_ohu, <<"P", "M">>, <<"p", "m">>, W_jeonyeok, W_bam,
                            W_neujeunbam} THEN "PM"
             ELSE None

Min(a, b) == IF a < b THEN a ELSE b
Max(a, b) == IF a > b THEN a ELSE b

to_24h_hour(h0, ampm) ==
    LET h == Max(0, Min(12, h0))
    IN  IF ampm = "AM" THEN (IF h = 12 THEN 0 ELSE h)
        ELSE IF ampm = "PM" THEN (IF h = 12 THEN 12 ELSE h + 12)
        ELSE h

\* format(n, "02d")
Pad2(n) == IF n < 10 THEN <<"0">> \o StrOf(n) ELSE StrOf(n)
HHMM(h, m) == Pad2(h) \o <<":">> \o Pad2(m)

RE_marker == AltAll(<<Str(W_ojeon), Str(W_ohu), Str(W_bam), Str(W_saebyeok),
                      Str(W_jeonyeok), Str(W_nat)>>)
RE_d12 == Cat(In(Digit), Opt(In(Digit)))
RE_d2 == Cat(In(Digit), In(Digit))
RE_sep == In({"~", "-", "ENDASH", "EMDASH"})

RE_colon_range ==
    CatAll(<<Opt(Grp(1, RE_marker)), Sp, Grp(2, RE_d12), Lit(":"), Grp(3, RE_d2),
             Lazy(In(Dot)), RE_sep, Sp,
             Opt(Grp(4, RE_marker)), Sp, Grp(5, RE_d12), Lit(":"), Grp(6, RE_d2)>>)
RE_ctx_am == Cat(AltAll(<<Str(W_ojeon), Str(<<"A", "M">>), Str(<<"a", "m">>),
                          Str(W_saebyeok)>>), Bnd)
RE_ctx_pm == Cat(AltAll(<<Str(W_ohu), Str(<<"P", "M">>), Str(<<"p", "m">>),
                          Str(W_jeonyeok), Str(W_bam), Str(W_neujeunbam)>>), Bnd)
RE_colon_time == CatAll(<<Grp(1, RE_d12), Lit(":"), Grp(2, RE_d2)>>)
RE_si_bun(gm, gh, gb) ==
    CatAll(<<Opt(Grp(gm, RE_marker)), Sp, Grp(gh, RE_d12), Sp, Lit("SI"),
             Opt(CatAll(<<Sp, Grp(gb, RE_d12), Sp, Lit("BUN")>>))>>)
RE_korean_range == CatAll(<<RE_si_bun(1, 2, 3), Sp, RE_sep, Sp, RE_si_bun(4, 5, 6)>>)
RE_korean_single == RE_si_bun(1, 2, 3)

\* the two sides of a range, each with its own marker only
RangeOf_own_marker_only(m, t) ==
    LET ctx_left == detect_ampm(HasGroup(m, 1), Group(m, t, 1))
        ctx_right == detect_ampm(HasGroup(m, 4), Group(m, t, 4))
        mm1 == IF HasGroup(m, 3) THEN IntOf(Group(m, t, 3)) ELSE 0
        mm2 == IF HasGroup(m, 6) THEN IntOf(Group(m, t, 6)) ELSE 0
    IN  HHMM(to_24h_hour(IntOf(Group(m, t, 2)), ctx_left), mm1) \o <<"~">>
            \o HHMM(to_24h_hour(IntOf(Group(m, t, 5)), ctx_right), mm2)

\* the two sides of a range, each with its own marker or the other side's
RangeOf(m, t) ==
    LET left0 == detect_ampm(HasGroup(m, 1), Group(m, t, 1))
        right0 == detect_ampm(HasGroup(m, 4), Group(m, t, 4))
        ctx_right == IF right0 # None THEN right0 ELSE left0
        ctx_left == IF left0 = None /\ ctx_right # None THEN ctx_right ELSE left0
        mm1 == IF HasGroup(m, 3) THEN IntOf(Group(m, t, 3)) ELSE 0
        mm2 == IF HasGroup(m, 6) THEN IntOf(Group(m, t, 6)) ELSE 0
    IN  HHMM(to_24h_hour(IntOf(Group(m, t, 2)), ctx_left), mm1) \o <<"~">>
            \o HHMM(to_24h_hour(IntOf(Group(m, t, 5)), ctx_right), mm2)

extract_time_range(s) ==
    LET raw == clean_text(s)
        t == normalize_special_words(raw)
        m0 == ReSearch(RE_colon_range, t)
        context == IF ReSearch(RE_ctx_am, t).found THEN "AM"
                   ELSE IF ReSearch(RE_ctx_pm, t).found THEN "PM"
                   ELSE None
        colon_times == ReFindAll(RE_colon_time, t)
        conv(hm) == HHMM(to_24h_hour(IntOf(Group(hm, t, 1)), context),
                         IntOf(Group(hm, t, 2)))
        m2 == ReSearch(RE_korean_range, t)
        m3 == ReSearch(RE_korean_single, t)
    IN  IF m0.found THEN RangeOf(m0, t)
        ELSE IF colon_times # <<>>
             THEN (IF Len(colon_times) >= 2
                   THEN conv(colon_times[1]) \o <<"~">> \o conv(colon_times[2])
                   ELSE conv(colon_times[1]))
        ELSE IF m2.found THEN RangeOf(m2, t)
        ELSE IF m3.found
             THEN HHMM(to_24h_hour(IntOf(Group(m3, t, 2)),
                                   detect_ampm(HasGroup(m3, 1), Group(m3, t, 1))),
                       IF HasGroup(m3, 3) THEN IntOf(Group(m3, t, 3)) ELSE 0)
        ELSE <<>>

\* ---- runtime ----
DayChars == {"WOL", "HWA", "SU", "MOK", "GEUM", "TO", "IL"}
DAY_PATTERN == CatAll(<<Grp(1, In(DayChars)), Lit("YO"), Lit("IL")>>)
W_sigan == <<"SI", "GAN">>
RE_unit == Grp(1, Alt(Str(W_sigan), Lit("BUN")))
RE_num == Plus(In(Digit))
RE_hours_minutes == CatAll(<<Grp(1, RE_num), Sp, Str(W_sigan), Sp, Grp(2, RE_num),
                             Sp, Lit("BUN")>>)
RE_hours == CatAll(<<Grp(1, RE_num), Sp, Str(W_sigan)>>)
RE_minutes == CatAll(<<Grp(1, RE_num), Sp, Lit("BUN")>>)

\* Optional[int]: <<>> is None, <<n>> is the number n
RuntimeOf(t) ==
    LET hm == ReSearch(RE_hours_minutes, t)
        h == ReSearch(RE_hours, t)
        mi == ReSearch(RE_minutes, t)
    IN  IF ~ReSearch(RE_unit, t).found THEN <<>>
        ELSE IF hm.found
             THEN <<IntOf(Group(hm, t, 1)) * 60 + IntOf(Group(hm, t, 2))>>
        ELSE IF h.found THEN <<IntOf(Group(h, t, 1)) * 60>>
        ELSE IF mi.found THEN <<IntOf(Group(mi, t, 1))>>
        ELSE <<>>

parse_runtime_minutes_no_colon_guard(s) ==
    LET t == clean_text(s)
    IN  IF ReSearch(DAY_PATTERN, t).found \/ Contains(t, "~") THEN <<>>
        ELSE RuntimeOf(t)

parse_runtime_minutes_strict(s) ==
    LET t == clean_text(s)
    IN  IF ReSearch(DAY_PATTERN, t).found \/ Contains(t, "~") \/ Contains(t, ":")
        THEN <<>>
        ELSE RuntimeOf(t)

(***************************************************************************)
(* Bounded texts over an alphabet                                          *)
(***************************************************************************)
Texts(alphabet, n) == UNION {[1..k -> alphabet] : k \in 0..n}

MaxTitleLen == 5
GlyphPairs == {{"LDA", "RDA"}, {"LSA", "RSA"}, {"LGU", "RGU"}, {"LCB", "RCB"},
               {"LWC", "RWC"}, {"<", ">"}}
\* titles: Hangul, whitespace and one kind of bracket pair
Titles == UNION {Texts({"GA", " ", "TAB"} \cup p, MaxTitleLen) : p \in GlyphPairs}

(***************************************************************************)
(* strip_brackets applied to a title cell (drama_weekly.py:96)             *)
(***************************************************************************)
NoTable == rows = <<>> /\ outfile = None /\ today = <<>>
NoCall == text = <<>> /\ result = None
NoPool == items = <<>> /\ futs = <<>> /\ yielded = {}
NoProc == script = None /\ columns = {} /\ exit_status = <<>>
NoIO == web = <<>> /\ frame = <<>> /\ fs = <<>>

InitStrip == /\ pc = "call"
             /\ text \in Titles
             /\ result = None
             /\ NoTable
             /\ NoPool
             /\ NoProc
             /\ NoIO

CallStripBrackets == /\ pc = "call"
                     /\ result' = strip_brackets(text)
                     /\ pc' = "returned"
                     /\ UNCHANGED <<text, tableVars, poolVars, procVars, ioVars>>

NextStrip == CallStripBrackets
SpecStrip == InitStrip /\ [][NextStrip]_vars

\* the twelve bracket glyphs the specification lists
BracketGlyphs == {"LDA", "RDA", "LSA", "RSA", "LGU", "RGU", "LCB", "RCB", "LWC",
                  "RWC", "<", ">"}

RECURSIVE Filter(_, _)
Filter(s, keep) == IF s = <<>> THEN <<>>
                   ELSE (IF Head(s) \in keep THEN <<Head(s)>> ELSE <<>>)
                            \o Filter(Tail(s), keep)

\* the maximal runs of non-whitespace characters of s, in order
RECURSIVE WordsOf(_, _)
WordsOf(s, cur) ==
    IF s = <<>> THEN (IF cur = <<>> THEN <<>> ELSE <<cur>>)
    ELSE IF Head(s) \in Space
         THEN (IF cur = <<>> THEN <<>> ELSE <<cur>>) \o WordsOf(Tail(s), <<>>)
         ELSE WordsOf(Tail(s), Append(cur, Head(s)))

SingleSpaced(s) ==
    /\ \A i \in DOMAIN s : s[i] \in Space => s[i] = " "
    /\ \A i \in 1..(Len(s) - 1) : ~(s[i] = " " /\ s[i + 1] = " ")
    /\ s # <<>> => (s[1] # " " /\ s[Len(s)] # " ")

\* C7: strip_brackets removes every occurrence of each of the twelve bracket
\* glyphs, leaves whitespace only as single spaces between words (none leading
\* or trailing), keeps every other character in its original order with the
\* same word breaks, and applying it to its own result changes nothing.
C7_StripBrackets ==
    pc = "returned" =>
        /\ \A i \in DOMAIN result : result[i] \notin BracketGlyphs
        /\ SingleSpaced(result)
        /\ WordsOf(result, <<>>) = WordsOf(Filter(text, Char \ BracketGlyphs), <<>>)
        /\ strip_brackets(result) = result

C7_Witness ==
    /\ pc = "returned"
    /\ Contains(text, "RWC")
    /\ \E i \in 1..(Len(text) - 1) : text[i] \in Space /\ text[i + 1] \in Space
    /\ result = <<"GA", " ", "GA">>

(***************************************************************************)
(* extract_time_range applied to a broadcast-time cell                     *)
(* (drama_weekly.py:304)                                                   *)
(***************************************************************************)
TimeMarkers == {<<>>, W_ohu \o <<" ">>, W_ojeon \o <<" ">>, W_bam \o <<" ">>}
TimeHours == {<<"9">>, <<"1", "0">>, <<"1", "2">>}
KoreanSides == {am \o h \o <<"SI">> \o mm :
                   am \in TimeMarkers, h \in TimeHours,
                   mm \in {<<>>, <<"3", "0", "BUN">>}}
ColonSides == {am \o h \o <<":">> \o mm :
                  am \in TimeMarkers, h \in TimeHours,
                  mm \in {<<"0", "0">>, <<"3", "0">>}}
TimeSeparators == {<<" ", "~", " ">>, <<"-">>}
TimeTexts ==
    KoreanSides \cup ColonSides
        \cup {a \o sep \o b : a \in KoreanSides, sep \in TimeSeparators, b \in KoreanSides}
        \cup {a \o sep \o b : a \in ColonSides, sep \in TimeSeparators, b \in ColonSides}

InitTimeRange == /\ pc = "call"
                 /\ text \in TimeTexts
                 /\ result = None
                 /\ NoTable
                 /\ NoPool
                 /\ NoProc
                 /\ NoIO

CallExtractTimeRange == /\ pc = "call"
                        /\ result' = extract_time_range(text)
                        /\ pc' = "returned"
                        /\ UNCHANGED <<text, tableVars, poolVars, procVars, ioVars>>

NextTimeRange == CallExtractTimeRange
SpecTimeRange == InitTimeRange /\ [][NextTimeRange]_vars

\* C1: the text "O HU 10 SI 30 BUN ~ 12 SI" (PM 10:30 to an unmarked 12
\* o'clock) is normalized to "22:30~00:00".
C1_TenThirtyToMidnight ==
    (pc = "returned" /\ text = W_ohu \o <<" ", "1", "0", "SI", "3", "0", "BUN",
                                          " ", "~", " ", "1", "2", "SI">>)
        => result = <<"2", "2", ":", "3", "0", "~", "0", "0", ":", "0", "0">>

(***************************************************************************)
(* parse_runtime_minutes_strict applied to a runtime cell                  *)
(* (drama_weekly.py:311)                                                   *)
(***************************************************************************)
MaxRuntimeDigits == 2
HourTexts == Texts({"1"}, MaxRuntimeDigits)
MinuteTexts == Texts({"0", "1", "5", "7"}, MaxRuntimeDigits)
\* [H][SI GAN][ ][M][BUN]
RuntimeCores == {h \o u1 \o sp \o m \o u2 :
                    h \in HourTexts, u1 \in {<<>>, W_sigan}, sp \in {<<>>, <<" ">>},
                    m \in MinuteTexts, u2 \in {<<>>, <<"BUN">>}}
\* what else a cell may carry: schedule marks, bare or inside a footnote
RuntimeMarks == {<<"~">>, <<":">>, <<"WOL", "YO", "IL">>,
                 <<"[", "~", "]">>, <<"[", "1", ":", "2", "]">>,
                 <<"[", "WOL", "YO", "IL", "]">>}
RuntimeTexts == RuntimeCores
                    \cup {d \o c : d \in RuntimeMarks, c \in RuntimeCores}
                    \cup {c \o d : d \in RuntimeMarks, c \in RuntimeCores}

InitRuntime == /\ pc = "call"
               /\ text \in RuntimeTexts
               /\ result = None
               /\ NoTable
               /\ NoPool
               /\ NoProc
               /\ NoIO

CallParseRuntime == /\ pc = "call"
                    /\ result' = parse_runtime_minutes_strict(text)
                    /\ pc' = "returned"
                    /\ UNCHANGED <<text, tableVars, poolVars, procVars, ioVars>>

NextRuntime == CallParseRuntime
SpecRuntime == InitRuntime /\ [][NextRuntime]_vars

ContainsDay(s) == \E i \in 1..(Len(s) - 2) :
                      s[i] \in DayChars /\ s[i + 1] = "YO" /\ s[i + 2] = "IL"
ScheduleMarked(s) == ContainsDay(s) \/ Contains(s, "~") \/ Contains(s, ":")

RuntimeFormsHold ==
    /\ \A h \in HourTexts, m \in MinuteTexts, sp \in {<<>>, <<" ">>} :
           (h # <<>> /\ m # <<>> /\ text = h \o W_sigan \o sp \o m \o <<"BUN">>)
               => result = <<60 * IntOf(h) + IntOf(m)>>
    /\ \A m \in MinuteTexts :
           (m # <<>> /\ text = m \o <<"BUN">>) => result = <<IntOf(m)>>

\* C8 as stated: "H SI GAN M BUN" gives 60*H+M, "M BUN" gives M, and a text that
\* contains a day-of-week token, a "~" or a ":" gives None.
C8_AsStated ==
    pc = "returned" =>
        /\ RuntimeFormsHold
        /\ ScheduleMarked(text) => result = <<>>

\* C8 amended: "H SI GAN M BUN" gives 60*H+M, "M BUN" gives M, and a text that
\* contains a day-of-week token, a "~" or a ":" outside its footnote markers
\* "[...]" gives None.
C8_ParseRuntime ==
    pc = "returned" =>
        /\ RuntimeFormsHold
        /\ ScheduleMarked(ReSub(RE_footnote, <<>>, text)) => result = <<>>

C8_Witness ==
    /\ pc = "returned"
    /\ text = <<"1", "SI", "GAN", " ", "1", "0", "BUN">>
    /\ result = <<70>>

(***************************************************************************)
(* workspace/drama_2025_fin.py                                             *)
(***************************************************************************)
RE_fin_glyphs == Alt(In({"LDA", "RDA", "LSA", "RSA", "LGU", "RGU", "LCB", "RCB",
                         "LWC", "'"}),
                     In({"<", ">"}))

\* main hands it str values only (line 421), so the isinstance guard never fires
clean_title_brackets(t) ==
    Strip(ReSub(RE_spaces, <<" ">>,
          ReSub(RE_double_angle, <<>>,
          ReSub(RE_fin_glyphs, <<>>, t))))

MaxFinTitleLen == 4
\* titles: Hangul, an apostrophe, whitespace and one kind of bracket pair
FinTitles == UNION {Texts({"GA", " ", "'"} \cup p, MaxFinTitleLen) : p \in GlyphPairs}

InitCleanTitle == /\ pc = "call"
                  /\ text \in FinTitles
                  /\ result = None
                  /\ NoTable
                  /\ NoPool
                  /\ NoProc
                  /\ NoIO

CallCleanTitleBrackets == /\ pc = "call"
                          /\ result' = clean_title_brackets(text)
                          /\ pc' = "returned"
                          /\ UNCHANGED <<text, tableVars, poolVars, procVars, ioVars>>

NextCleanTitle == CallCleanTitleBrackets
SpecCleanTitle == InitCleanTitle /\ [][NextCleanTitle]_vars

\* C6: clean_title_brackets removes every occurrence of each of the twelve
\* bracket glyphs, collapses whitespace runs to one space and removes no other
\* character of the title.
C6_CleanTitleBrackets ==
    pc = "returned" =>
        /\ \A i \in DOMAIN result : result[i] \notin BracketGlyphs
        /\ SingleSpaced(result)
        /\ WordsOf(result, <<>>) = WordsOf(Filter(text, Char \ BracketGlyphs), <<>>)

\* str.split(sep)
RECURSIVE SplitOn(_, _, _)
SplitOn(s, sep, cur) ==
    IF s = <<>> THEN <<cur>>
    ELSE IF Head(s) = sep THEN <<cur>> \o SplitOn(Tail(s), sep, <<>>)
    ELSE SplitOn(Tail(s), sep, Append(cur, Head(s)))
Split(s, sep) == SplitOn(s, sep, <<>>)

\* str.isdigit()
IsDigits(s) == s # <<>> /\ \A i \in DOMAIN s : s[i] \in Digit

\* datetime.date(y, m, d) raises ValueError unless the date exists
IsLeap(y) == y % 4 = 0 /\ (y % 100 # 0 \/ y % 400 = 0)
DaysInMonth(y, m) == IF m = 2 THEN (IF IsLeap(y) THEN 29 ELSE 28)
                     ELSE IF m \in {4, 6, 9, 11} THEN 30 ELSE 31
MINYEAR == 1
MAXYEAR == 9999
DateExists(y, m, d) == /\ y >= MINYEAR /\ y <= MAXYEAR
                       /\ m >= 1 /\ m <= 12
                       /\ d >= 1 /\ d <= DaysInMonth(y, m)

\* a call's outcome when an exception leaves it
Raised == <<-1>>

\* the text turned into digit groups joined by "-"
KrDateParts(s) ==
    LET t0 == Strip(s)
        t1 == ReSub(Lit("IL"), <<>>,
              ReSub(Lit("WOL"), <<"-">>,
              ReSub(Lit("NYEON"), <<"-">>, t0)))
        t2 == ReSub(Plus(In({"."} \cup Space)), <<"-">>, t1)
        t3 == ReSub(In(Char \ (Digit \cup {"-"})), <<>>, t2)
        t4 == StripChars(ReSub(Plus(Lit("-")), <<"-">>, t3), {"-"})
    IN  Split(t4, "-")

\* lines 63-70 without the try: int() of the groups, then date(y, m, d)
KrDateOfParts(parts) ==
    LET y == IntOf(parts[1])
        m == IF Len(parts) > 1 /\ IsDigits(parts[2]) THEN IntOf(parts[2]) ELSE 1
        d == IF Len(parts) > 2 /\ IsDigits(parts[3]) THEN IntOf(parts[3]) ELSE 1
    IN  IF ~IsDigits(parts[1]) THEN <<>>
        ELSE IF DateExists(y, m, d) THEN <<y, m, d>>
        ELSE Raised

\* lines 63-70: except Exception: return None
KrDateOrNone(dt) == IF dt = Raised THEN <<>> ELSE dt

\* Optional[date]: <<>> is None, <<y, m, d>> a date
normalize_kr_date_no_except(s) ==
    IF Strip(s) = <<>> THEN <<>> ELSE KrDateOfParts(KrDateParts(s))

normalize_kr_date(s) ==
    IF Strip(s) = <<>> THEN <<>> ELSE KrDateOrNone(KrDateOfParts(KrDateParts(s)))

MaxAroundLen == 2
AroundTexts == Texts({"GA", "1", " ", "."}, MaxAroundLen)
TokenYears == {<<"2", "0", "2", "5">>, <<"2", "0", "2", "4">>}
TokenMonths == {<<"2">>, <<"1", "3">>}
TokenDays == {<<"3">>, <<"2", "9">>, <<"3", "0">>}
KrToken(y, m, d) == y \o <<"NYEON", " ">> \o m \o <<"WOL", " ">> \o d \o <<"IL">>
\* texts that hold a date token, and texts without a digit
KrDateTexts ==
    {pre \o KrToken(y, m, d) \o post :
        pre \in AroundTexts, post \in AroundTexts,
        y \in TokenYears, m \in TokenMonths, d \in TokenDays}
    \cup Texts({"GA", " ", "NYEON", "WOL", "IL", ".", "-"}, MaxAroundLen)

InitKrDate == /\ pc = "call"
              /\ text \in KrDateTexts
              /\ result = None
              /\ NoTable
              /\ NoPool
              /\ NoProc
              /\ NoIO

CallNormalizeKrDate == /\ pc = "call"
                       /\ result' = normalize_kr_date(text)
                       /\ pc' = "returned"
                       /\ UNCHANGED <<text, tableVars, poolVars, procVars, ioVars>>

NextKrDate == CallNormalizeKrDate
SpecKrDate == InitKrDate /\ [][NextKrDate]_vars

\* the date token "YYYY NYEON M WOL D IL" a text contains, by its leftmost place
RE_kr_token == CatAll(<<Grp(1, CatAll(<<In(Digit), In(Digit), In(Digit), In(Digit)>>)),
                        Lit("NYEON"), Lit(" "), Grp(2, RE_d12), Lit("WOL"), Lit(" "),
                        Grp(3, RE_d12), Lit("IL")>>)
TokenIn(s) == ReSearch(RE_kr_token, s)
TokenDate(s) == LET m == TokenIn(s)
                IN  <<IntOf(Group(m, s, 1)), IntOf(Group(m, s, 2)), IntOf(Group(m, s, 3))>>
TokenDateExists(s) == DateExists(TokenDate(s)[1], TokenDate(s)[2], TokenDate(s)[3])
\* no digit before or after the token
TokenAlone(s) == LET m == TokenIn(s)
                 IN  /\ ~HasDigit(SubSeq(s, 1, m.start - 1))
                     /\ ~HasDigit(SubSeq(s, m.end, Len(s)))

\* C5 as stated: a text that contains a date token, whatever surrounds it,
\* gives the date of the token; a text without a digit gives None; no call
\* raises.
C5_AsStated ==
    pc = "returned" =>
        /\ (TokenIn(text).found /\ TokenDateExists(text)) => result = TokenDate(text)
        /\ ~HasDigit(text) => result = <<>>
        /\ result # Raised

\* C5 amended: a text that contains a date token and no digit outside it gives
\* the date of the token when that date exists and None when it does not; a
\* text without a digit gives None; no call raises.
C5_NormalizeKrDate ==
    pc = "returned" =>
        /\ (TokenIn(text).found /\ TokenAlone(text)) =>
               result = IF TokenDateExists(text) THEN TokenDate(text) ELSE <<>>
        /\ ~HasDigit(text) => result = <<>>
        /\ result # Raised

C5_Witness ==
    /\ pc = "returned"
    /\ text = <<"GA", " ">> \o KrToken(<<"2", "0", "2", "4">>, <<"2">>, <<"2", "9">>)
                  \o <<" ", "GA">>
    /\ result = <<2024, 2, 29>>

\* DataFrame.drop_duplicates(subset=["title"]): the first row of each title stays
RECURSIVE DropDuplicateTitles(_, _)
DropDuplicateTitles(df, seen) ==
    IF df = <<>> THEN <<>>
    ELSE IF Head(df).title \in seen THEN DropDuplicateTitles(Tail(df), seen)
         ELSE <<Head(df)>> \o DropDuplicateTitles(Tail(df), seen \cup {Head(df).title})

RE_special == Str(<<"SEU", "PE", "SYEOL">>)

\* main, lines 407-474, on the title column; "src" is the position of the scraped
\* row and stands for the columns the steps carry along with the title
FinTable(scraped) ==
    LET df0 == [k \in DOMAIN scraped |-> [title |-> clean_text(scraped[k]), src |-> k]]
        df1 == DropDuplicateTitles(df0, {})
        df2 == [k \in DOMAIN df1 |->
                   [df1[k] EXCEPT !.title = clean_title_brackets(df1[k].title)]]
    IN  SelectSeq(df2, LAMBDA r : ~ReSearch(RE_special, r.title).found)

MaxFinRows == 3
\* titles as scraped: plain, bracketed, quoted, spaced, a special episode
ScrapedTitles == {<<"GA">>, <<"LDA", "GA", "RDA">>, <<"LWC", "GA", "RWC">>,
                  <<"GA", " ", " ", "a">>, <<"GA", " ", "a">>,
                  <<"GA", " ", "SEU", "PE", "SYEOL">>}

InitFin == /\ pc = "start"
           /\ rows \in UNION {[1..n -> ScrapedTitles] : n \in 0..MaxFinRows}
           /\ outfile = None
           /\ today = <<>>
           /\ NoCall
           /\ NoPool
           /\ NoProc
           /\ NoIO

FinMainNoRows == /\ pc = "start"
                 /\ rows = <<>>
                 /\ pc' = "done"
                 /\ UNCHANGED <<callVars, tableVars, poolVars, procVars, ioVars>>

FinMain == /\ pc = "start"
           /\ rows # <<>>
           /\ outfile' = FinTable(rows)
           /\ pc' = "done"
           /\ UNCHANGED <<callVars, rows, today, poolVars, procVars, ioVars>>

NextFin == FinMainNoRows \/ FinMain
SpecFin == InitFin /\ [][NextFin]_vars

\* C9: no two rows of the table written to kdrama_2025_fin.csv carry the same
\* title.
C9_UniqueTitles ==
    (pc = "done" /\ rows # <<>>) =>
        \A i, j \in DOMAIN outfile : outfile[i].title = outfile[j].title => i = j

(***************************************************************************)
(* episode_bild.py                                                         *)
(***************************************************************************)
strip_ctrl(s) == IF s = <<>> THEN <<>> ELSE ReSub(In(Ctrl), <<>>, s)

\* str.replace of "\r\n" and "\r" by "\n"
RE_crlf == Alt(Str(<<"CR", "NL">>), Lit("CR"))

eb_clean_text(s) ==
    IF s = <<>> THEN <<>>
    ELSE Strip(strip_ctrl(ReSub(RE_spaces, <<" ">>,
                          ReSub(RE_crlf, <<"NL">>,
                          ReSub(RE_footnote, <<>>, s)))))

RE_digits == Grp(1, Plus(In(Digit)))

normalize_episode_no_keep_zeros(s) ==
    LET t == eb_clean_text(s)
        m == ReSearch(RE_digits, t)
    IN  IF m.found THEN Append(Group(m, t, 1), "HWA") ELSE t

normalize_episode_no(s) ==
    LET t == eb_clean_text(s)
        m == ReSearch(RE_digits, t)
    IN  IF m.found THEN Append(StrOf(IntOf(Group(m, t, 1))), "HWA") ELSE t

MaxEpisodeNoLen == 4
EpisodeNoAlphabet == {"0", "1", "7", "HWA", " ", "[", "]", "NUL"}

InitEpisodeNo == /\ pc = "call"
                 /\ text \in Texts(EpisodeNoAlphabet, MaxEpisodeNoLen)
                 /\ result = None
                 /\ NoTable
                 /\ NoPool
                 /\ NoProc
                 /\ NoIO

CallNormalizeEpisodeNo == /\ pc = "call"
                          /\ result' = normalize_episode_no(text)
                          /\ pc' = "returned"
                          /\ UNCHANGED <<text, tableVars, poolVars, procVars, ioVars>>

NextEpisodeNo == CallNormalizeEpisodeNo
SpecEpisodeNo == InitEpisodeNo /\ [][NextEpisodeNo]_vars

\* the digits a text starts with
RECURSIVE LeadingDigits(_)
LeadingDigits(s) == IF s # <<>> /\ Head(s) \in Digit
                    THEN <<Head(s)>> \o LeadingDigits(Tail(s)) ELSE <<>>

RECURSIVE IsSubsequence(_, _)
IsSubsequence(a, b) ==
    IF a = <<>> THEN TRUE
    ELSE IF b = <<>> THEN FALSE
    ELSE IF Head(a) = Head(b) THEN IsSubsequence(Tail(a), Tail(b))
    ELSE IsSubsequence(a, Tail(b))

\* C4 as stated: a text that starts with an integer becomes "<int>HWA" with the
\* leading zeros dropped, and a text without a digit comes back exactly as
\* given.
C4_AsStated ==
    pc = "returned" =>
        /\ (text # <<>> /\ text[1] \in Digit) =>
               result = Append(StrOf(IntOf(LeadingDigits(text))), "HWA")
        /\ ~HasDigit(text) => result = text

\* C4 amended: a text that starts with an integer not directly followed by a
\* footnote bracket or a control character becomes "<int>HWA" with the leading
\* zeros dropped; a text without a digit comes back cleaned (no control
\* character, no whitespace at the ends, only spaces as whitespace, its other
\* characters taken in order from the input), and exactly as given when it
\* holds no bracket, no control character and only single inner spaces.
C4_NormalizeEpisodeNo ==
    pc = "returned" =>
        LET lead == LeadingDigits(text)
            next == IF Len(lead) < Len(text) THEN text[Len(lead) + 1] ELSE " "
        IN  /\ (lead # <<>> /\ next \notin ({"[", "]"} \cup Ctrl)) =>
                   result = Append(StrOf(IntOf(lead)), "HWA")
            /\ ~HasDigit(text) =>
                   /\ \A i \in DOMAIN result : result[i] \notin Ctrl \cup (Space \ {" "})
                   /\ result # <<>> => (result[1] # " " /\ result[Len(result)] # " ")
                   /\ IsSubsequence(Filter(result, Char \ Space), text)
                   /\ (SingleSpaced(text) /\ \A i \in DOMAIN text :
                           text[i] \notin ({"[", "]"} \cup Ctrl)) => result = text

C4_Witness ==
    /\ pc = "returned"
    /\ text = <<"0", "7", "HWA", " ">>
    /\ result = <<"7", "HWA">>

(***************************************************************************)
(* workspace/drama_calendar_2025.py                                        *)
(***************************************************************************)
\* the status values: 방송 예정, 방영중, 종영
ST_scheduled == "bangsong yejeong"
ST_airing == "bangyeongjung"
ST_ended == "jongyeong"

\* a < b on dates <<y, m, d>>
DateLt(a, b) == \/ a[1] < b[1]
                \/ a[1] = b[1] /\ a[2] < b[2]
                \/ a[1] = b[1] /\ a[2] = b[2] /\ a[3] < b[3]
DateLe(a, b) == a = b \/ DateLt(a, b)

\* row.get(key, ""): the column's value, "" when the row has no such column
RowGet(row, key) == IF key \in DOMAIN row THEN row[key] ELSE <<>>

\* "예정" in s
RE_yejeong == Str(<<"YE", "JEONG">>)

\* main.decide_status, lines 389-415, on the values it has read from the row;
\* now is main's "today"
cal_status(raw_join, start, end, now) ==
    IF ReSearch(RE_yejeong, raw_join).found /\ (start = <<>> \/ DateLt(now, start))
    THEN ST_scheduled
    ELSE IF start # <<>> /\ DateLt(now, start) THEN ST_scheduled
    ELSE IF start # <<>> /\ DateLe(start, now)
         THEN (IF end # <<>>
               THEN (IF DateLe(now, end) THEN ST_airing ELSE ST_ended)
               ELSE ST_airing)
    ELSE IF end # <<>> THEN (IF DateLt(end, now) THEN ST_ended ELSE ST_scheduled)
    ELSE ST_airing

\* main.decide_status, lines 385-415: start_raw and end_raw are read from the
\* columns first_air_date and end_air_date
cal_decide_status(row, now) ==
    cal_status(RowGet(row, "first_air_date") \o <<" ">> \o RowGet(row, "end_air_date"),
               normalize_kr_date(RowGet(row, "first_air_date")),
               normalize_kr_date(RowGet(row, "end_air_date")),
               now)

\* lines 373-377: the period cut at "~", after the dashes have become "~"
cal_split_period(period) ==
    Split(ReSub(In({"ENDASH", "EMDASH", "-"}), <<"~">>, period), "~")

\* line 417: df["status"] = df.apply(decide_status, axis=1)
cal_with_status(row, now) ==
    [title |-> row.title, src |-> row.src, first_day |-> row.first_day,
     end_day |-> row.end_day, status |-> cal_decide_status(row, now)]

\* lines 378-380: first_day and end_day of a row, end_day "" when there is none
cal_with_days(title, period, halves, k, now) ==
    cal_with_status([title |-> title, period |-> period, src |-> k,
                     first_day |-> Strip(halves[1]),
                     end_day |-> IF Len(halves) > 1 THEN Strip(halves[2]) ELSE <<>>],
                    now)

\* lines 370-371: clean_text on the text columns
cal_row(title, period, k, now) ==
    cal_with_days(title, period, cal_split_period(period), k, now)

\* main, lines 369-457, on the columns title, period (방송 기간), first_day,
\* end_day and status; "src" is the position of the scraped row and stands for
\* the columns the steps carry along
CalTable(scraped, now) ==
    DropDuplicateTitles(
        [k \in DOMAIN scraped |->
            cal_row(clean_text(scraped[k].title), clean_text(scraped[k].period), k, now)],
        {})

MaxCalRows == 2
Jan3 == KrToken(<<"2", "0", "2", "5">>, <<"1">>, <<"3">>)
Feb4 == KrToken(<<"2", "0", "2", "5">>, <<"2">>, <<"4">>)
\* 방송 기간 cells: a closed period, an open one, a single date, nothing
CalPeriods == {Jan3 \o <<" ", "~", " ">> \o Feb4, Jan3 \o <<" ", "~">>, Jan3,
               Jan3 \o <<" ", "ENDASH", " ">> \o Feb4, <<>>}
CalRows == [title : {<<"GA">>, <<"a">>}, period : CalPeriods]
\* before the first day, inside the period, after the last day
CalDays == {<<2024, 12, 31>>, <<2025, 1, 15>>, <<2025, 6, 1>>}

InitCal == /\ pc = "start"
           /\ rows \in UNION {[1..n -> CalRows] : n \in 0..MaxCalRows}
           /\ today \in CalDays
           /\ outfile = None
           /\ NoCall
           /\ NoPool
           /\ NoProc
           /\ NoIO

CalMainNoRows == /\ pc = "start"
                 /\ rows = <<>>
                 /\ pc' = "done"
                 /\ UNCHANGED <<callVars, tableVars, poolVars, procVars, ioVars>>

CalMain == /\ pc = "start"
           /\ rows # <<>>
           /\ outfile' = CalTable(rows, today)
           /\ pc' = "done"
           /\ UNCHANGED <<callVars, rows, today, poolVars, procVars, ioVars>>

NextCal == CalMainNoRows \/ CalMain
SpecCal == InitCal /\ [][NextCal]_vars

\* the status the row's own dates call for
StatusByDates(first_day, end_day, now) ==
    LET st == normalize_kr_date(first_day)
        ed == normalize_kr_date(end_day)
    IN  IF DateLt(now, st) THEN ST_scheduled
        ELSE IF ed = <<>> \/ DateLe(now, ed) THEN ST_airing
        ELSE ST_ended

\* C10: the status written for a row follows from the row's own first_day and
\* end_day and today's date: scheduled before first_day, airing from first_day
\* to end_day (or with no end_day), ended after end_day.
C10_StatusFromOwnDates ==
    (pc = "done" /\ rows # <<>>) =>
        \A k \in DOMAIN outfile :
            normalize_kr_date(outfile[k].first_day) # <<>> =>
                outfile[k].status =
                    StatusByDates(outfile[k].first_day, outfile[k].end_day, today)

(***************************************************************************)
(* drama_person.py: list mode of main, the detail pages scraped by a       *)
(* ThreadPoolExecutor                                                      *)
(***************************************************************************)
WORKERS == 8

\* ord(c): the code point of each character of Char
CodePoint(c) ==
    CASE c = "NUL" -> 0 [] c = "TAB" -> 9 [] c = "NL" -> 10 [] c = "CR" -> 13 [] c = " " -> 32
    [] c = "'" -> 39 [] c = "-" -> 45 [] c = "." -> 46 [] c = "0" -> 48 [] c = "1" -> 49
    [] c = "2" -> 50 [] c = "3" -> 51 [] c = "4" -> 52 [] c = "5" -> 53 [] c = "6" -> 54
    [] c = "7" -> 55 [] c = "8" -> 56 [] c = "9" -> 57 [] c = ":" -> 58 [] c = "<" -> 60
    [] c = ">" -> 62 [] c = "A" -> 65 [] c = "M" -> 77 [] c = "P" -> 80 [] c = "[" -> 91
    [] c = "]" -> 93 [] c = "a" -> 97 [] c = "m" -> 109 [] c = "p" -> 112 [] c = "~" -> 126
    [] c = "NBSP" -> 160 [] c = "LGU" -> 171 [] c = "RGU" -> 187 [] c = "ENDASH" -> 8211
    [] c = "EMDASH" -> 8212 [] c = "LSA" -> 12296 [] c = "RSA" -> 12297 [] c = "LDA" -> 12298
    [] c = "RDA" -> 12299 [] c = "LCB" -> 12300 [] c = "RCB" -> 12301 [] c = "LWC" -> 12302
    [] c = "RWC" -> 12303 [] c = "GA" -> 44032 [] c = "GAN" -> 44036 [] c = "GEUM" -> 44552
    [] c = "NAT" -> 45230 [] c = "NYEOK" -> 45377 [] c = "NYEON" -> 45380
    [] c = "NEUJ" -> 45734 [] c = "MOK" -> 47785 [] c = "BAM" -> 48164
    [] c = "BYEOK" -> 48317 [] c = "BUN" -> 48516 [] c = "SAE" -> 49352
    [] c = "SYEOL" -> 49500 [] c = "SU" -> 49688 [] c = "SEU" -> 49828 [] c = "SI" -> 49884
    [] c = "YE" -> 50696 [] c = "O" -> 50724 [] c = "YO" -> 50836 [] c = "WOL" -> 50900
    [] c = "EUN" -> 51008 [] c = "IL" -> 51068 [] c = "JA" -> 51088 [] c = "JEO" -> 51200
    [] c = "JEON" -> 51204 [] c = "JEONG" -> 51221 [] c = "TO" -> 53664 [] c = "PE" -> 54168
    [] c = "HWA" -> 54868 [] c = "HU" -> 54980
    [] c = "JANG" -> 51109 [] c = "REU" -> 47476 [] c = "BANG" -> 48169
    [] c = "SONG" -> 49569 [] c = "SA" -> 49324 [] c = "CHAE" -> 52292
    [] c = "NEOL" -> 45328 [] c = "GUK" -> 44397 [] c = "DA" -> 45796
    [] c = "EUM" -> 51020 [] c = "I" -> 51060 [] c = "JI" -> 51648
    [] c = "BEOM" -> 48276 [] c = "JOE" -> 51396 [] c = "RO" -> 47196
    [] c = "MAEN" -> 47592 [] c = "GONG" -> 44277 [] c = "PO" -> 54252
    [] c = "," -> 44 [] c = ";" -> 59 [] c = "n" -> 110 [] c = "N" -> 78
    [] c = "o" -> 111 [] c = "e" -> 101

\* a < b on str: by code point, a proper prefix first
RECURSIVE StrLt(_, _)
StrLt(a, b) ==
    IF b = <<>> THEN FALSE
    ELSE IF a = <<>> THEN TRUE
    ELSE IF Head(a) = Head(b) THEN StrLt(Tail(a), Tail(b))
    ELSE CodePoint(Head(a)) < CodePoint(Head(b))

\* DataFrame.drop_duplicates(): the first of equal rows stays
RECURSIVE DropDuplicateRows(_, _)
DropDuplicateRows(df, seen) ==
    IF df = <<>> THEN <<>>
    ELSE IF Head(df) \in seen THEN DropDuplicateRows(Tail(df), seen)
         ELSE <<Head(df)>> \o DropDuplicateRows(Tail(df), seen \cup {Head(df)})

\* the order of sort_values(by=["title", "character_name"])
CastLt(a, b) == \/ StrLt(a.title, b.title)
                \/ a.title = b.title /\ StrLt(a.character_name, b.character_name)

\* sort_values(..., kind="stable"): a row goes behind the rows not after it
RECURSIVE InsertCast(_, _)
InsertCast(r, sorted) ==
    IF sorted = <<>> THEN <<r>>
    ELSE IF CastLt(r, Head(sorted)) THEN <<r>> \o sorted
    ELSE <<Head(sorted)>> \o InsertCast(r, Tail(sorted))

RECURSIVE SortCast(_)
SortCast(df) ==
    IF df = <<>> THEN <<>>
    ELSE InsertCast(df[Len(df)], SortCast(SubSeq(df, 1, Len(df) - 1)))

\* the futures main submits: one for each item with a detail_url, in order
Submitted(its) == SelectSeq(its, LAMBDA it : it.detail_url # None)

MaxItems == 3
\* a list page entry: a linked title, or a title without a page of its own
ListEntries == [title_fallback : {<<"GA">>, <<"a">>, <<"1">>}, detail_url : {"wiki"}]
                   \cup [title_fallback : {<<"GA">>, <<"a">>}, detail_url : {None}]
\* extract_list_items returns no entry twice (lines 304-310); a detail_url
\* stands for the page of the entry's title
ListItems == {its \in UNION {[1..n -> ListEntries] : n \in 0..MaxItems} :
                 \A i, j \in DOMAIN its : its[i] = its[j] => i = j}
\* what scrape_detail finds on a page: no cast, or one role line
PageCasts(it) == {<<>>,
                  <<[title |-> it.title_fallback, role_type |-> "juyeon",
                     character_name |-> <<"GA">>, order_no |-> 1]>>}

Running == {i \in DOMAIN futs : futs[i].state = "running"}
Finished == {i \in DOMAIN futs : futs[i].state \in {"returned", "raised"}}

InitPerson == /\ pc = "start"
              /\ items \in ListItems
              /\ futs = <<>>
              /\ yielded = {}
              /\ rows = <<>>
              /\ outfile = <<>>
              /\ today = <<>>
              /\ script = "drama_person"
              /\ columns = {}
              /\ exit_status = <<>>
              /\ NoCall
              /\ NoIO

\* extract_list_items: get_soup raises on the list page, main ends with it
ListPageRaises == /\ pc = "start"
                  /\ pc' = "exited"
                  /\ exit_status' = <<1>>
                  /\ UNCHANGED <<callVars, tableVars, poolVars, script, columns, ioVars>>

\* lines 326-330: ex.submit for each item with a detail_url
SubmitAll == /\ pc = "start"
             /\ futs' = [i \in DOMAIN Submitted(items) |->
                            [state |-> "queued", value |-> <<>>]]
             /\ pc' = "pool"
             /\ UNCHANGED <<callVars, tableVars, items, yielded, procVars, ioVars>>

\* a free worker thread takes the oldest queued task
WorkerStart(i) == /\ pc \in {"pool", "unwind"}
                  /\ futs[i].state = "queued"
                  /\ \A j \in 1..(i - 1) : futs[j].state # "queued"
                  /\ Cardinality(Running) < WORKERS
                  /\ futs' = [futs EXCEPT ![i].state = "running"]
                  /\ UNCHANGED <<pc, callVars, tableVars, items, yielded, procVars, ioVars>>

\* scrape_detail returns the page's rows
WorkerReturn(i) == /\ pc \in {"pool", "unwind"}
                   /\ futs[i].state = "running"
                   /\ \E cast \in PageCasts(Submitted(items)[i]) :
                         futs' = [futs EXCEPT ![i] = [state |-> "returned", value |-> cast]]
                   /\ UNCHANGED <<pc, callVars, tableVars, items, yielded, procVars, ioVars>>

\* scrape_detail: get_soup raises (HTTP error status, network error)
WorkerRaise(i) == /\ pc \in {"pool", "unwind"}
                  /\ futs[i].state = "running"
                  /\ futs' = [futs EXCEPT ![i].state = "raised"]
                  /\ UNCHANGED <<pc, callVars, tableVars, items, yielded, procVars, ioVars>>

\* lines 331-335: as_completed yields a finished future, fut.result() returns
MainExtend(i) == /\ pc = "pool"
                 /\ i \notin yielded
                 /\ futs[i].state = "returned"
                 /\ rows' = rows \o futs[i].value
                 /\ yielded' = yielded \cup {i}
                 /\ UNCHANGED <<pc, callVars, outfile, today, items, futs, procVars, ioVars>>

\* lines 331-335: fut.result() raises the task's exception again; the try has
\* no except clause, so after the finally the exception leaves the loop
MainResultRaises(i) == /\ pc = "pool"
                       /\ i \notin yielded
                       /\ futs[i].state = "raised"
                       /\ yielded' = yielded \cup {i}
                       /\ pc' = "unwind"
                       /\ UNCHANGED <<callVars, tableVars, items, futs, procVars, ioVars>>

\* the with block's exit waits for every task (shutdown(wait=True)), then the
\* exception ends main
UnwindExit == /\ pc = "unwind"
              /\ Finished = DOMAIN futs
              /\ pc' = "exited"
              /\ exit_status' = <<1>>
              /\ UNCHANGED <<callVars, tableVars, poolVars, script, columns, ioVars>>

\* the loop has seen every future; lines 337-338 when there is no row
NoRowsReturn == /\ pc = "pool"
                /\ yielded = DOMAIN futs
                /\ rows = <<>>
                /\ pc' = "exited"
                /\ exit_status' = <<0>>
                /\ UNCHANGED <<callVars, tableVars, poolVars, script, columns, ioVars>>

\* lines 341-344: drama_person.csv
WriteCsv == /\ pc = "pool"
            /\ yielded = DOMAIN futs
            /\ rows # <<>>
            /\ outfile' = <<SortCast(DropDuplicateRows(rows, {}))>>
            /\ pc' = "exited"
            /\ exit_status' = <<0>>
            /\ UNCHANGED <<callVars, rows, today, poolVars, script, columns, ioVars>>

NextPerson == \/ ListPageRaises
              \/ SubmitAll
              \/ \E i \in DOMAIN futs : WorkerStart(i)
              \/ \E i \in DOMAIN futs : WorkerReturn(i)
              \/ \E i \in DOMAIN futs : WorkerRaise(i)
              \/ \E i \in DOMAIN futs : MainExtend(i)
              \/ \E i \in DOMAIN futs : MainResultRaises(i)
              \/ UnwindExit
              \/ NoRowsReturn
              \/ WriteCsv
SpecPerson == InitPerson /\ [][NextPerson]_vars

\* C2: when one detail page fails in the pool, the run still ends normally:
\* the rows of every page that was scraped are collected, and they are written
\* to drama_person.csv.
C2_FailingPageNeverAborts ==
    (pc = "exited" /\ \E i \in DOMAIN futs : futs[i].state = "raised") =>
        /\ exit_status = <<0>>
        /\ \A i \in DOMAIN futs : futs[i].state = "returned" =>
               \A k \in DOMAIN futs[i].value :
                   \E n \in DOMAIN rows : rows[n] = futs[i].value[k]
        /\ rows # <<>> => outfile # <<>>

(***************************************************************************)
(* The scripts that read a CSV of titles: what each main does with the     *)
(* header of its input before it starts to work                            *)
(***************************************************************************)
\* the column name 제목 is written "jemok"
\* episode_bild.py:341, descriptions.py:138, tmdb_image_batch.py:39
EB_title_candidates == <<"title", "jemok", "drama_title">>
DESC_title_candidates == <<"title", "jemok">>
TMDB_title_candidates == <<"title", "drama_title", "jemok", "name">>
\* episode.py:55-56
needed1 == {"title", "runtime"}
needed2 == {"drama_title", "runtime_min"}

\* next((c for c in candidates if c in df.columns), None)
FirstIn(candidates, cols) ==
    LET hits == SelectSeq(candidates, LAMBDA c : c \in cols)
    IN  IF hits = <<>> THEN None ELSE Head(hits)

Scripts == {"episode_bild", "episode", "descriptions", "tmdb_image_batch"}
InputColumns == SUBSET {"title", "drama_title", "jemok", "name", "runtime_min"}
WeeklyColumns == SUBSET {"title", "runtime"}
\* the headers of the files a script reads: "in" its input CSV, "weekly"
\* drama_weekly.csv, which only episode.py reads
Headers(sc) == [in : InputColumns,
                weekly : IF sc = "episode" THEN WeeklyColumns ELSE {{}}]

InitScript == /\ pc = "start"
              /\ script \in Scripts
              /\ columns \in Headers(script)
              /\ exit_status = <<>>
              /\ outfile = <<>>
              /\ rows = <<>>
              /\ today = <<>>
              /\ NoCall
              /\ NoIO
              /\ NoPool

\* raise SystemExit(message): the message on stderr, exit status 1
SystemExit == /\ pc' = "exited"
              /\ exit_status' = <<1>>
              /\ UNCHANGED outfile

\* main returns: exit status 0; header is the header of the file it wrote,
\* <<>> when it wrote none
Returns(header) == /\ pc' = "exited"
                   /\ exit_status' = <<0>>
                   /\ outfile' = header

\* episode_bild.main, lines 334-380
EpisodeBildMain ==
    /\ pc = "start"
    /\ script = "episode_bild"
    /\ IF FirstIn(EB_title_candidates, columns.in) = None
       THEN Returns(<<>>)
       ELSE Returns(<<{"drama_title", "episode_no", "title", "broadcast_at",
                       "description"}>>)
    /\ UNCHANGED <<callVars, rows, today, poolVars, script, columns, ioVars>>

\* episode.main, lines 49-91
EpisodeMain ==
    /\ pc = "start"
    /\ script = "episode"
    /\ IF needed1 \ columns.weekly # {} THEN SystemExit
       ELSE IF needed2 \ columns.in # {} THEN SystemExit
       ELSE Returns(<<columns.in>>)
    /\ UNCHANGED <<callVars, rows, today, poolVars, script, columns, ioVars>>

\* descriptions.main, lines 134-155; exists: kdrama_2025_fin.csv is there
DescriptionsMain ==
    /\ pc = "start"
    /\ script = "descriptions"
    /\ \E exists \in BOOLEAN :
          IF ~exists THEN SystemExit
          ELSE IF FirstIn(DESC_title_candidates, columns.in) = None THEN SystemExit
          ELSE Returns(<<{"title", "description"}>>)
    /\ UNCHANGED <<callVars, rows, today, poolVars, script, columns, ioVars>>

\* tmdb_image_batch.main, lines 78-147, with detect_title_column, lines 37-43
TmdbImageBatchMain ==
    /\ pc = "start"
    /\ script = "tmdb_image_batch"
    /\ \E api_key \in BOOLEAN, exists \in BOOLEAN :
          IF ~api_key THEN SystemExit
          ELSE IF ~exists THEN SystemExit
          ELSE IF FirstIn(TMDB_title_candidates, columns.in) = None THEN SystemExit
          ELSE Returns(<<{"drama_title", "tmdb_id", "poster_url", "backdrop_url",
                          "source"}>>)
    /\ UNCHANGED <<callVars, rows, today, poolVars, script, columns, ioVars>>

NextScript == EpisodeBildMain \/ EpisodeMain \/ DescriptionsMain \/ TmdbImageBatchMain
SpecScript == InitScript /\ [][NextScript]_vars

\* the input lacks the title column the script asks for
TitleColumnMissing ==
    CASE script = "episode_bild" -> FirstIn(EB_title_candidates, columns.in) = None
      [] script = "episode" -> "drama_title" \notin columns.in
      [] script = "descriptions" -> FirstIn(DESC_title_candidates, columns.in) = None
      [] script = "tmdb_image_batch" -> FirstIn(TMDB_title_candidates, columns.in) = None

\* C3: a script whose input CSV lacks the title column ends with a non-zero
\* exit status and writes no output file.
C3_MissingTitleColumnIsFatal ==
    (pc = "exited" /\ TitleColumnMissing) =>
        exit_status # <<0>> /\ outfile = <<>>

(***************************************************************************)
(* workspace/drama_2025_fin.py: decide_status                              *)
(***************************************************************************)
\* the status "" of a row without dates
ST_blank == ""

\* decide_status, lines 376-390, on the parsed dates
fin_status(st, ed, now) ==
    IF st # <<>> /\ ed = <<>>
    THEN (IF DateLt(now, st) THEN ST_scheduled ELSE ST_airing)
    ELSE IF st # <<>> /\ ed # <<>> /\ DateLt(now, st) THEN ST_scheduled
    ELSE IF st # <<>> /\ ed # <<>> /\ DateLe(st, now) /\ DateLe(now, ed) THEN ST_airing
    ELSE IF st # <<>> /\ ed # <<>> /\ DateLt(ed, now) THEN ST_ended
    ELSE ST_blank

\* decide_status without the last comparison: a row past its end stays on air
fin_decide_status_never_ended(row, now) ==
    IF Strip(row.first_day) = <<>> /\ Strip(row.end_day) = <<>> THEN ST_blank
    ELSE IF fin_status(normalize_kr_date(Strip(row.first_day)),
                       normalize_kr_date(Strip(row.end_day)), now) = ST_ended
         THEN ST_airing
         ELSE fin_status(normalize_kr_date(Strip(row.first_day)),
                         normalize_kr_date(Strip(row.end_day)), now)

\* decide_status, lines 364-390; now is date.today().  normalize_kr_date gives
\* None for "", so the two "if start_raw"/"if end_raw" guards need no case
fin_decide_status(row, now) ==
    IF Strip(row.first_day) = <<>> /\ Strip(row.end_day) = <<>> THEN ST_blank
    ELSE fin_status(normalize_kr_date(Strip(row.first_day)),
                    normalize_kr_date(Strip(row.end_day)), now)

DotDate(y, m, d) == y \o <<".">> \o m \o <<".">> \o d
Y2025 == <<"2", "0", "2", "5">>
\* first_day cells: none, a date, a date with a blank, month 13, no date at all
FirstDays == {<<>>, DotDate(Y2025, <<"0", "1">>, <<"0", "3">>),
              <<" ">> \o DotDate(Y2025, <<"0", "1">>, <<"0", "3">>),
              DotDate(Y2025, <<"1", "3">>, <<"0", "1">>), <<"GA">>, <<" ">>}
\* end_day cells: none, a later date, a date before first_day, 30 February
EndDays == {<<>>, DotDate(Y2025, <<"0", "2">>, <<"0", "4">>),
            DotDate(<<"2", "0", "2", "4">>, <<"1", "2">>, <<"0", "1">>),
            DotDate(Y2025, <<"0", "2">>, <<"3", "0">>), <<"GA">>}
FinDays == {<<2024, 11, 30>>, <<2024, 12, 15>>, <<2025, 1, 2>>, <<2025, 1, 3>>,
            <<2025, 1, 20>>, <<2025, 2, 4>>, <<2025, 2, 5>>}

InitFinStatus == /\ pc = "call"
                 /\ rows \in {<<r>> : r \in [first_day : FirstDays, end_day : EndDays]}
                 /\ today \in FinDays
                 /\ result = None
                 /\ text = <<>>
                 /\ outfile = None
                 /\ NoPool
                 /\ NoProc
                 /\ NoIO

CallDecideStatus == /\ pc = "call"
                    /\ result' = fin_decide_status(rows[1], today)
                    /\ pc' = "returned"
                    /\ UNCHANGED <<text, tableVars, poolVars, procVars, ioVars>>

NextFinStatus == CallDecideStatus
SpecFinStatus == InitFinStatus /\ [][NextFinStatus]_vars

FirstDate == normalize_kr_date(Strip(rows[1].first_day))
EndDate == normalize_kr_date(Strip(rows[1].end_day))

\* C11: decide_status returns "" when both cells are empty or first_day does
\* not parse; with only first_day parsed, scheduled before first_day and on air
\* otherwise; with both parsed, scheduled only before first_day, on air only
\* from first_day to end_day, ended only after end_day; and nothing else.
C11_DecideStatus ==
    pc = "returned" =>
        /\ result \in {ST_blank, ST_scheduled, ST_airing, ST_ended}
        /\ (Strip(rows[1].first_day) = <<>> /\ Strip(rows[1].end_day) = <<>>)
               => result = ST_blank
        /\ FirstDate = <<>> => result = ST_blank
        /\ (FirstDate # <<>> /\ EndDate = <<>>) =>
               result = IF DateLt(today, FirstDate) THEN ST_scheduled ELSE ST_airing
        /\ (FirstDate # <<>> /\ EndDate # <<>>) =>
               /\ result \in {ST_scheduled, ST_airing, ST_ended}
               /\ result = ST_scheduled <=> DateLt(today, FirstDate)
               /\ result = ST_airing <=> (DateLe(FirstDate, today) /\ DateLe(today, EndDate))
               /\ result = ST_ended =>  DateLt(EndDate, today)

C11_Witness ==
    /\ pc = "returned"
    /\ FirstDate = <<2025, 1, 3>>
    /\ EndDate = <<2025, 2, 4>>
    /\ today = <<2025, 2, 5>>
    /\ result = ST_ended

(***************************************************************************)
(* episode_bild.py: the episode rows of one document.  A document is the   *)
(* sequence of the tables of its episode section; a table is the sequence  *)
(* of its data rows under a header of the columns 회차, 제목, 줄거리, each    *)
(* row the texts of its three cells.                                       *)
(***************************************************************************)
\* parse_table_horizontal, lines 180-197: one item for each data row
HorizontalItem(cells) ==
    [episode_no |-> normalize_episode_no(eb_clean_text(cells.episode_no)),
     broadcast_at |-> <<>>,
     title |-> eb_clean_text(cells.title),
     description |-> eb_clean_text(cells.description)]

\* parse_table_horizontal: the rows that have an episode number or a title
parse_table_horizontal(table) ==
    SelectSeq([k \in DOMAIN table |-> HorizontalItem(table[k])],
              LAMBDA item : item.episode_no # <<>> \/ item.title # <<>>)

\* parse_episode_table, lines 264-275: under a header row of th cells the
\* vertical and the indexed parser find nothing (no tr has th and td; the first
\* tr has no td), so the result is the horizontal parser's
parse_episode_table(table) == parse_table_horizontal(table)

\* ep_key, lines 285-287
NoEpisodeKey == 1000000000
ep_key_of(m, episode_no) ==
    IF m.found THEN IntOf(Group(m, episode_no, 1)) ELSE NoEpisodeKey
ep_key(d) == ep_key_of(ReSearch(RE_digits, d.episode_no), d.episode_no)

\* list.sort(key=ep_key): stable, a row goes behind the rows not after it
RECURSIVE InsertEpisode(_, _)
InsertEpisode(r, sorted) ==
    IF sorted = <<>> THEN <<r>>
    ELSE IF ep_key(r) < ep_key(Head(sorted)) THEN <<r>> \o sorted
    ELSE <<Head(sorted)>> \o InsertEpisode(r, Tail(sorted))

RECURSIVE SortEpisodes(_)
SortEpisodes(eps) ==
    IF eps = <<>> THEN <<>>
    ELSE InsertEpisode(eps[Len(eps)], SortEpisodes(SubSeq(eps, 1, Len(eps) - 1)))

\* lines 280-283: rows.extend(parsed) for each table
RECURSIVE ExtendAll(_)
ExtendAll(tables) ==
    IF tables = <<>> THEN <<>>
    ELSE parse_episode_table(Head(tables)) \o ExtendAll(Tail(tables))

\* parse_document_for_episodes, lines 277-289
parse_document_for_episodes(doc) == SortEpisodes(ExtendAll(doc))

MaxDocRows == 2
EpisodeCells == [episode_no : {<<>>, <<"1">>, <<"0", "1">>, <<"2">>},
                 title : {<<>>, <<"GA">>, <<"GA", "GA">>},
                 description : {<<>>}]
\* documents of two tables with MaxDocRows data rows between them
EpisodeDocs ==
    UNION {{<<t1, t2>> : t1 \in [1..n[1] -> EpisodeCells], t2 \in [1..n[2] -> EpisodeCells]} :
              n \in {n \in (0..MaxDocRows) \X (0..MaxDocRows) : n[1] + n[2] <= MaxDocRows}}

InitEpisodes == /\ pc = "call"
                /\ text \in EpisodeDocs
                /\ result = None
                /\ NoTable
                /\ NoPool
                /\ NoProc
                /\ NoIO

CallParseDocument == /\ pc = "call"
                     /\ result' = parse_document_for_episodes(text)
                     /\ pc' = "returned"
                     /\ UNCHANGED <<text, tableVars, poolVars, procVars, ioVars>>

NextEpisodes == CallParseDocument
SpecEpisodes == InitEpisodes /\ [][NextEpisodes]_vars

\* C12: the episode rows of one drama hold each episode number once (rows of
\* the same number are merged into one).
C12_OneRowPerEpisode ==
    pc = "returned" =>
        \A i, j \in DOMAIN result :
            result[i].episode_no = result[j].episode_no => i = j

(***************************************************************************)
(* episode.py: the runtime merge.  A CSV file is the sequence of its rows, *)
(* each cell a text ("" an empty cell); a DataFrame cell is a text or NaN. *)
(***************************************************************************)
NaN == <<"NaN">>
\* pd.read_csv: an empty cell is read as NaN
read_cell(c) == IF c = <<>> THEN NaN ELSE c
\* DataFrame.to_csv: NaN is written as an empty cell
to_cell(v) == IF v = NaN THEN <<>> ELSE v
\* str(x)
str_of(v) == IF v = NaN THEN <<"n", "a", "n">> ELSE v

\* nfc_strip, lines 19-24 (the characters here are their own NFC form)
nfc_strip(s) == ReSub(RE_spaces, <<" ">>, Strip(s))
\* normalize_title, lines 26-28
normalize_title(v) == nfc_strip(str_of(v))

RE_bun_end == CatAll(<<Star(In(Space)), Lit("BUN"), Star(In(Space)), Eol>>)

\* lines 41-47, on the text s, m the digits found in it
minutes_label_of(m, s, stripped) ==
    IF m.found THEN Append(StrOf(IntOf(Group(m, s, 1))), "BUN")
    ELSE IF stripped = <<>> THEN <<>>
    ELSE Append(stripped, "BUN")

\* normalize_runtime_to_minutes_label, lines 30-47
normalize_runtime_to_minutes_label(x) ==
    IF x = NaN THEN <<>>
    ELSE minutes_label_of(ReSearch(RE_digits, x), x, ReSub(RE_bun_end, <<>>, nfc_strip(x)))

\* runtime_map, lines 69-74: the runtime of the first weekly row of a key;
\* <<>> when no row has the key, else <<runtime>>
RECURSIVE runtime_map(_, _)
runtime_map(df1, key) ==
    IF df1 = <<>> THEN <<>>
    ELSE IF normalize_title(Head(df1).title) = key THEN <<Head(df1).runtime>>
    ELSE runtime_map(Tail(df1), key)

\* lines 81-84 for one row: the found runtime, labelled, replaces runtime_min
fill_runtime(row, found) ==
    IF found = <<>> THEN row
    ELSE [row EXCEPT !.runtime_min = normalize_runtime_to_minutes_label(found[1])]

\* a merge that keeps only the rows with a runtime in drama_weekly
episode_merge_matched_only(df1, df2) ==
    SelectSeq([k \in DOMAIN df2 |->
                  fill_runtime(df2[k], runtime_map(df1, normalize_title(df2[k].drama_title)))],
              LAMBDA row : runtime_map(df1, normalize_title(row.drama_title)) # <<>>)

\* main, lines 64-86, on the DataFrames df1 (drama_weekly) and df2 (episodes)
episode_merge(df1, df2) ==
    [k \in DOMAIN df2 |->
        fill_runtime(df2[k], runtime_map(df1, normalize_title(df2[k].drama_title)))]

\* read_csv_any / to_csv of a whole table
read_weekly(file) ==
    [k \in DOMAIN file |-> [title |-> read_cell(file[k].title),
                            runtime |-> read_cell(file[k].runtime)]]
read_episodes(file) ==
    [k \in DOMAIN file |-> [drama_title |-> read_cell(file[k].drama_title),
                            runtime_min |-> read_cell(file[k].runtime_min),
                            src |-> file[k].src]]
episodes_to_csv(df) ==
    [k \in DOMAIN df |-> [drama_title |-> to_cell(df[k].drama_title),
                          runtime_min |-> to_cell(df[k].runtime_min),
                          src |-> df[k].src]]

MaxMergeRows == 2
WeeklyRows == [title : {<<"GA">>, <<"GA", " ">>},
               runtime : {<<>>, <<"0", "7", " ", "BUN">>, <<"GA", " ", "BUN">>}]
EpisodeRows == [drama_title : {<<"GA">>, <<" ", "GA">>, <<"a">>},
                runtime_min : {<<>>, <<"6", "0", "BUN">>},
                src : {0}]
WeeklyFiles == UNION {[1..n -> WeeklyRows] : n \in 0..MaxMergeRows}
\* "src" numbers the rows of the file: it stands for the other columns
EpisodeFiles == {[k \in DOMAIN f |-> [f[k] EXCEPT !.src = k]] :
                    f \in UNION {[1..n -> EpisodeRows] : n \in 0..MaxMergeRows}}

\* fs: drama_weekly.csv, episode_bild.csv (the episode input) and episode.csv
\* (the output: <<>> before it is written, then <<table>>)
InitMerge == /\ pc = "start"
             /\ fs \in [weekly : WeeklyFiles, episode_bild : EpisodeFiles, episode : {<<>>}]
             /\ rows = <<>>
             /\ outfile = <<>>
             /\ today = <<>>
             /\ web = <<>>
             /\ frame = <<>>
             /\ NoCall
             /\ NoPool
             /\ NoProc

\* main, lines 49-91, on files that have the needed columns
EpisodeMergeRun ==
    /\ pc \in {"start", "fed back"}
    /\ fs' = [fs EXCEPT !.episode =
                 <<episodes_to_csv(episode_merge(read_weekly(fs.weekly),
                                                 read_episodes(fs.episode_bild)))>>]
    /\ pc' = IF pc = "start" THEN "merged" ELSE "merged again"
    /\ UNCHANGED <<callVars, tableVars, poolVars, procVars, web, frame>>

\* the output becomes the episode input of the next run; rows and outfile keep
\* the first run's input and output
FeedOutputBack ==
    /\ pc = "merged"
    /\ rows' = fs.episode_bild
    /\ outfile' = fs.episode[1]
    /\ fs' = [fs EXCEPT !.episode_bild = fs.episode[1], !.episode = <<>>]
    /\ pc' = "fed back"
    /\ UNCHANGED <<callVars, today, poolVars, procVars, web, frame>>

NextMerge == EpisodeMergeRun \/ FeedOutputBack
SpecMerge == InitMerge /\ [][NextMerge]_vars

\* the title of an episode row has a runtime in drama_weekly
Matched(row) ==
    runtime_map(read_weekly(fs.weekly), normalize_title(read_cell(row.drama_title))) # <<>>

\* the output of a run has the rows of its input, in order, the rows without a
\* match as they were
SameRows(input, output) ==
    /\ Len(output) = Len(input)
    /\ \A k \in DOMAIN input :
          /\ output[k].src = input[k].src
          /\ output[k].drama_title = input[k].drama_title
          /\ ~Matched(input[k]) => output[k] = input[k]

ClockMarkers == {<<>>, W_ohu \o <<" ">>}
ClockHours == {<<"0">>, <<"9">>, <<"1", "2">>, <<"2", "3">>}
ClockColonSides == {am \o h \o <<":">> \o mm :
                       am \in ClockMarkers, h \in ClockHours,
                       mm \in {<<"0", "0">>, <<"5", "9">>, <<"7", "5">>}}
ClockKoreanSides == {am \o h \o <<"SI">> \o mm :
                        am \in ClockMarkers, h \in ClockHours,
                        mm \in {<<>>, <<" ", "5", "9", "BUN">>, <<" ", "7", "5", "BUN">>}}
ClockTexts ==
    ClockColonSides \cup ClockKoreanSides \cup {<<>>, <<"GA">>}
        \cup {a \o <<"~">> \o b : a \in ClockColonSides, b \in ClockColonSides}
        \cup {a \o <<"~">> \o b : a \in ClockKoreanSides, b \in ClockKoreanSides}

InitTimeFormat == /\ pc = "call"
                  /\ text \in ClockTexts
                  /\ result = None
                  /\ NoTable
                  /\ NoPool
                  /\ NoProc
                  /\ NoIO

SpecTimeFormat == InitTimeFormat /\ [][NextTimeRange]_vars

\* "HH:MM" with HH in 00..23 and MM in 00..59
IsClock(s) ==
    /\ Len(s) = 5
    /\ s[3] = ":"
    /\ \A i \in {1, 2, 4, 5} : s[i] \in Digit
    /\ IntOf(SubSeq(s, 1, 2)) <= 23
    /\ IntOf(SubSeq(s, 4, 5)) <= 59

\* C14: extract_time_range returns "", a clock time "HH:MM" or a range
\* "HH:MM~HH:MM" of clock times, HH in 00..23 and MM in 00..59.
C14_ClockFormat ==
    pc = "returned" =>
        \/ result = <<>>
        \/ IsClock(result)
        \/ /\ Len(result) = 11
           /\ result[6] = "~"
           /\ IsClock(SubSeq(result, 1, 5))
           /\ IsClock(SubSeq(result, 7, 11))

(***************************************************************************)
(* descriptions.py: extract_by_common_selector.  A document is the         *)
(* sequence of its tables; a table is the texts of its th/td cells, with   *)
(* whether COMMON_SELECTOR_PRIMARY and whether "article table" select it.  *)
(***************************************************************************)
\* " ".join(c.get_text(" ", strip=True) for c in cells)
RECURSIVE JoinCells(_)
JoinCells(cells) ==
    IF cells = <<>> THEN <<>>
    ELSE IF Len(cells) = 1 THEN Strip(cells[1])
    ELSE Strip(cells[1]) \o <<" ">> \o JoinCells(Tail(cells))

RE_two_spaces == Cat(In(Space), Plus(In(Space)))

\* table_to_text_one_line, lines 72-81
table_to_text_one_line(tbl) ==
    IF tbl.cells = <<>> THEN <<>>
    ELSE Strip(ReSub(RE_two_spaces, <<" ">>,
               ReSub(In({"NL", "CR", "TAB"}), <<" ">>,
               ReSub(RE_footnote, <<>>, JoinCells(tbl.cells)))))

\* max(tables, key=lambda t: len(t.select("th, td"))): the first of the
\* tables with the most cells
RECURSIVE MaxByCells(_, _)
MaxByCells(tables, best) ==
    IF tables = <<>> THEN best
    ELSE MaxByCells(Tail(tables),
                    IF Len(Head(tables).cells) > Len(best.cells) THEN Head(tables) ELSE best)

\* pick_best_table, lines 83-86, on a list that is not empty
pick_best_table(tables) == MaxByCells(Tail(tables), Head(tables))

\* lines 92-93 and 99-100: the selected tables that have a cell
WithCells(tables) == SelectSeq(tables, LAMBDA t : Len(t.cells) > 0)
PrimaryTables(doc) == WithCells(SelectSeq(doc, LAMBDA t : t.primary))
FallbackTables(doc) == WithCells(SelectSeq(doc, LAMBDA t : t.article))

\* lines 95-107, on the two candidate lists
best_text(primary, fallback) ==
    IF primary # <<>> THEN table_to_text_one_line(pick_best_table(primary))
    ELSE IF fallback # <<>> THEN table_to_text_one_line(pick_best_table(fallback))
    ELSE <<>>

\* extract_by_common_selector, lines 88-107
extract_by_common_selector(doc) == best_text(PrimaryTables(doc), FallbackTables(doc))

MaxDescTables == 2
\* the cells of a table: none, empty ones, a footnote, texts
TableCells == {<<>>, <<<<>>>>, <<<<>>, <<>>>>, <<<<"GA">>>>, <<<<"GA">>, <<"a", " ">>>>,
               <<<<"[", "1", "]">>, <<>>, <<>>>>}
\* selected by the primary selector (inside the article), by "article table"
\* only, by neither
DescTables == [cells : TableCells, primary : {TRUE}, article : {TRUE}]
                  \cup [cells : TableCells, primary : {FALSE}, article : BOOLEAN]
DescDocs == UNION {[1..n -> DescTables] : n \in 0..MaxDescTables}

InitDescription == /\ pc = "call"
                   /\ text \in DescDocs
                   /\ result = None
                   /\ NoTable
                   /\ NoPool
                   /\ NoProc
                   /\ NoIO

CallExtractByCommonSelector ==
    /\ pc = "call"
    /\ result' = extract_by_common_selector(text)
    /\ pc' = "returned"
    /\ UNCHANGED <<text, tableVars, poolVars, procVars, ioVars>>

NextDescription == CallExtractByCommonSelector
SpecDescription == InitDescription /\ [][NextDescription]_vars

\* the number of cells of a table that hold text
RECURSIVE Populated(_)
Populated(cells) ==
    IF cells = <<>> THEN 0
    ELSE (IF Strip(Head(cells)) # <<>> THEN 1 ELSE 0) + Populated(Tail(cells))

\* the candidates in use: the primary tables, the fallback tables when no
\* primary table has a cell
InUse(doc) == IF PrimaryTables(doc) # <<>> THEN PrimaryTables(doc) ELSE FallbackTables(doc)

\* C15: the result is the one-line text of a table of the selector set in use
\* (fallback only when no primary table has a cell) that has the most populated
\* cells; it is "" only when no table of either set has content.
C15_BestTable ==
    pc = "returned" =>
        /\ InUse(text) # <<>> =>
               \E i \in DOMAIN InUse(text) :
                   /\ result = table_to_text_one_line(InUse(text)[i])
                   /\ \A j \in DOMAIN InUse(text) :
                          Populated(InUse(text)[j].cells) <= Populated(InUse(text)[i].cells)
        /\ result = <<>> =>
               \A i \in DOMAIN text :
                   (text[i].primary \/ text[i].article) =>
                       table_to_text_one_line(text[i]) = <<>>

(***************************************************************************)
(* drama_weekly.py: maybe_infer_runtime.  An exception that leaves an      *)
(* expression is the value ValueError.                                     *)
(***************************************************************************)
ValueError == <<"ValueError">>

\* str.split(sep, 1) of a text that holds sep
RECURSIVE SplitFirst(_, _, _)
SplitFirst(s, sep, cur) ==
    IF Head(s) = sep THEN <<cur, Tail(s)>>
    ELSE SplitFirst(Tail(s), sep, Append(cur, Head(s)))

\* int(s): <<n>>, or <<>> where int raises ValueError
PyInt(s) ==
    IF Strip(s) # <<>> /\ \A i \in DOMAIN Strip(s) : Strip(s)[i] \in Digit
    THEN <<IntOf(Strip(s))>>
    ELSE IF /\ Len(Strip(s)) > 1
            /\ Head(Strip(s)) = "-"
            /\ \A i \in 2..Len(Strip(s)) : Strip(s)[i] \in Digit
    THEN <<0 - IntOf(Tail(Strip(s)))>>
    ELSE <<>>

\* h, m = map(int, side.split(":")): <<h, m>>, or <<>> where it raises
HourMinute(parts) ==
    IF Len(parts) # 2 \/ PyInt(parts[1]) = <<>> \/ PyInt(parts[2]) = <<>> THEN <<>>
    ELSE <<PyInt(parts[1])[1], PyInt(parts[2])[1]>>

\* lines 336-340: the difference, a day added when the end is before the start
MinutesBetween(a, b) ==
    IF (b[1] * 60 + b[2]) - (a[1] * 60 + a[2]) < 0
    THEN (b[1] * 60 + b[2]) - (a[1] * 60 + a[2]) + 24 * 60
    ELSE (b[1] * 60 + b[2]) - (a[1] * 60 + a[2])

\* lines 341-344
GuardedLabel(diff, runtime, min_ok, max_ok) ==
    IF min_ok <= diff /\ diff <= max_ok THEN StrOf(diff) \o <<"BUN">> ELSE runtime

\* the body of the try, lines 332-344
InferFromSides(a, b, runtime, min_ok, max_ok) ==
    IF a = <<>> \/ b = <<>> THEN ValueError
    ELSE GuardedLabel(MinutesBetween(a, b), runtime, min_ok, max_ok)

InferBody(sides, runtime, min_ok, max_ok) ==
    InferFromSides(HourMinute(Split(sides[1], ":")),
                   HourMinute(Split(sides[2], ":")), runtime, min_ok, max_ok)

\* except Exception: return runtime, lines 345-346
OrRuntime(v, runtime) == IF v = ValueError THEN runtime ELSE v

\* the try block without its except clause
maybe_infer_runtime_no_except(start_time, runtime, min_ok, max_ok) ==
    IF runtime # <<>> THEN runtime
    ELSE IF start_time = <<>> \/ ~Contains(start_time, "~") THEN runtime
    ELSE InferBody(SplitFirst(start_time, "~", <<>>), runtime, min_ok, max_ok)

\* maybe_infer_runtime, lines 318-346
maybe_infer_runtime(start_time, runtime, min_ok, max_ok) ==
    IF runtime # <<>> THEN runtime
    ELSE IF start_time = <<>> \/ ~Contains(start_time, "~") THEN runtime
    ELSE OrRuntime(InferBody(SplitFirst(start_time, "~", <<>>), runtime, min_ok, max_ok),
                   runtime)

\* --guard-min and --guard-max, the values main passes
guard_min == 40
guard_max == 120

\* sides of a start_time: clock times, a time without minutes, a time with
\* seconds, a word, nothing
InferSides == {<<"9", ":", "0", "0">>, <<"1", "0", ":", "1", "0">>, <<"2", "3", ":", "3", "0">>,
               <<"0", ":", "2", "0">>, <<"9">>, <<"9", ":", "0", "0", ":", "0", "0">>,
               <<"GA">>, <<"9", ":", "GA">>, <<>>}
InferStartTimes == InferSides \cup {a \o <<"~">> \o b : a, b \in InferSides}
                      \cup {<<"9", ":", "0", "0", "~", "1", "0", ":", "1", "0", "~", "GA">>}
InferRuntimes == {<<>>, <<"6", "0", "BUN">>, <<"GA">>}

InitInfer == /\ pc = "call"
             /\ text \in [start_time : InferStartTimes, runtime : InferRuntimes]
             /\ result = None
             /\ NoTable
             /\ NoPool
             /\ NoProc
             /\ NoIO

CallMaybeInferRuntime ==
    /\ pc = "call"
    /\ result' = maybe_infer_runtime(text.start_time, text.runtime, guard_min, guard_max)
    /\ pc' = "returned"
    /\ UNCHANGED <<text, tableVars, poolVars, procVars, ioVars>>

NextInfer == CallMaybeInferRuntime
SpecInfer == InitInfer /\ [][NextInfer]_vars

\* a side that reads as two integers around one colon
IsHourMinute(side) == HourMinute(Split(side, ":")) # <<>>
\* a start_time that is a range of two such sides
IsClockRange(st) ==
    /\ Contains(st, "~")
    /\ IsHourMinute(SplitFirst(st, "~", <<>>)[1])
    /\ IsHourMinute(SplitFirst(st, "~", <<>>)[2])

\* C18: the call never raises; a runtime that is not empty is returned
\* unchanged whatever start_time is; with an empty runtime, a start_time that is
\* no range of two clock times (no "~", or a side that does not parse) gives
\* the empty runtime back.
C18_LabelRuntimeKept ==
    pc = "returned" =>
        /\ result # ValueError
        /\ text.runtime # <<>> => result = text.runtime
        /\ (text.runtime = <<>> /\ ~IsClockRange(text.start_time)) => result = <<>>

\* a call with an empty runtime and a range whose right side does not parse
\* has returned, and a call with a label runtime and a range that would give
\* another value
C18_Witness ==
    /\ pc = "returned"
    /\ \/ /\ text.runtime = <<>>
          /\ text.start_time = <<"9", ":", "0", "0", "~", "GA">>
       \/ /\ text.runtime = <<"GA">>
          /\ text.start_time = <<"9", ":", "0", "0", "~", "1", "0", ":", "1", "0">>

(***************************************************************************)
(* workspace/school_drama.py.  web maps a detail URL to its page; a page   *)
(* is its h1 text and the tr rows of its infobox, each with the text of    *)
(* its first th, of its first td and of the links in that td.              *)
(***************************************************************************)
W_genre == <<"JANG", "REU">>
W_bangsong == <<"BANG", "SONG">>
W_chaeneol == <<"CHAE", "NEOL">>
\* (방송\s*사|방송\s*채널|채널|방송국)
RE_broadcaster == AltAll(<<CatAll(<<Str(W_bangsong), Sp, Lit("SA")>>),
                           CatAll(<<Str(W_bangsong), Sp, Str(W_chaeneol)>>),
                           Str(W_chaeneol),
                           Cat(Str(W_bangsong), Lit("GUK"))>>)

\* "장르" in label
RE_genre == Str(W_genre)

\* [clean_text(a.get_text()) for a in td.select("a") if clean_text(a.get_text())]
RECURSIVE LinkTexts(_)
LinkTexts(links) ==
    IF links = <<>> THEN <<>>
    ELSE (IF clean_text(Head(links)) # <<>> THEN <<clean_text(Head(links))>> ELSE <<>>)
             \o LinkTexts(Tail(links))

\* "; ".join(links)
RECURSIVE JoinSemicolon(_)
JoinSemicolon(links) ==
    IF Len(links) = 1 THEN links[1]
    ELSE links[1] \o <<";", " ">> \o JoinSemicolon(Tail(links))

\* the body of the loop over the tr of the infobox, lines 104-118
ScanRow(acc, tr, label, value_text) ==
    IF tr.td = <<>> THEN acc
    ELSE [genre |-> IF label # <<>> /\ ReSearch(RE_genre, label).found /\ acc.genre = <<>>
                    THEN value_text ELSE acc.genre,
          broadcaster |-> IF /\ label # <<>>
                             /\ ReSearch(RE_broadcaster, label).found
                             /\ acc.broadcaster = <<>>
                          THEN IF LinkTexts(tr.links) # <<>>
                               THEN JoinSemicolon(LinkTexts(tr.links))
                               ELSE value_text
                          ELSE acc.broadcaster]

RECURSIVE ScanInfobox(_, _)
ScanInfobox(trs, acc) ==
    IF trs = <<>> THEN acc
    ELSE ScanInfobox(Tail(trs),
             ScanRow(acc, Head(trs),
                     IF Head(trs).th # <<>> THEN clean_text(Head(trs).th[1]) ELSE <<>>,
                     IF Head(trs).td # <<>> THEN clean_text(Head(trs).td[1]) ELSE <<>>))

DetailOf(title, fields) ==
    [title |-> title, genre |-> fields.genre, broadcaster |-> fields.broadcaster]

\* scrape_detail, lines 85-120, of a page that get_soup returned
scrape_detail(page) ==
    DetailOf(IF page.h1 # <<>> THEN clean_text(page.h1[1]) ELSE <<>>,
             IF page.infobox # <<>>
             THEN ScanInfobox(page.infobox[1], [genre |-> <<>>, broadcaster |-> <<>>])
             ELSE [genre |-> <<>>, broadcaster |-> <<>>])

\* pd.DataFrame(rows, columns=cols): a column that is no key of the dict is NaN
FrameRow(row, c1, c2, c3) ==
    [title |-> IF c1 \in DOMAIN row THEN row[c1] ELSE NaN,
     genre_name |-> IF c2 \in DOMAIN row THEN row[c2] ELSE NaN,
     channel_name |-> IF c3 \in DOMAIN row THEN row[c3] ELSE NaN]

\* df[c] = df[c].astype(str).map(clean_text), lines 146-147
CleanRow(r) ==
    [title |-> clean_text(str_of(r.title)),
     genre_name |-> clean_text(str_of(r.genre_name)),
     channel_name |-> clean_text(str_of(r.channel_name))]

\* lines 145-147
SchoolFrame(rs) ==
    [i \in DOMAIN rs |-> CleanRow(FrameRow(rs[i], "title", "genre_name", "channel_name"))]

MaxLinks == 2
SchoolUrls == {"u1", "u2"}
Tr(th, td, links) == [th |-> th, td |-> td, links |-> links]
SchoolInfoboxes ==
    {<<>>,
     <<<<Tr(<<W_genre>>, <<<<"GA">>>>, <<>>)>>>>,
     <<<<Tr(<<W_genre>>, <<<<"GA", " ", "[", "1", "]">>>>, <<>>),
        Tr(<<<<"BANG", "SONG", " ", "SA">>>>, <<<<"a">>>>, <<<<"a">>>>)>>>>,
     <<<<Tr(<<<<"BANG", "SONG", "GUK">>>>, <<<<"a", " ", "m">>>>, <<<<"a">>, <<" ">>, <<"m">>>>),
        Tr(<<W_genre>>, <<<<"a">>>>, <<>>),
        Tr(<<W_genre>>, <<<<"GA">>>>, <<>>)>>>>,
     <<<<Tr(<<>>, <<<<"GA">>>>, <<>>), Tr(<<W_genre>>, <<>>, <<>>),
        Tr(<<W_chaeneol>>, <<<<"m">>>>, <<>>)>>>>}
\* a page: get_soup raises (ok is FALSE), or the h1 and the infobox
SchoolPages == {[ok |-> FALSE, h1 |-> <<>>, infobox |-> <<>>]}
                  \cup [ok : {TRUE}, h1 : {<<>>, <<<<"GA", " ">>>>, <<<<"a">>>>},
                        infobox : SchoolInfoboxes]

InitSchool == /\ pc = "start"
              /\ web \in [SchoolUrls -> SchoolPages]
              /\ items \in UNION {[1..n -> SchoolUrls] : n \in 0..MaxLinks}
              /\ frame = [idx |-> 0, seen |-> {}]
              /\ rows = <<>>
              /\ outfile = <<>>
              /\ today = <<>>
              /\ futs = <<>>
              /\ yielded = {}
              /\ fs = <<>>
              /\ NoCall
              /\ NoProc

\* get_soup of the category page raises: nothing in main catches it
SchoolCategoryRaises ==
    /\ pc = "start"
    /\ pc' = "raised"
    /\ UNCHANGED <<callVars, tableVars, poolVars, procVars, ioVars>>

\* one round of the loop of main, lines 127-137, on the next link
SchoolScrape ==
    /\ pc \in {"start", "crawl"}
    /\ frame.idx < Len(items)
    /\ pc' = "crawl"
    /\ frame' = [idx |-> frame.idx + 1, seen |-> frame.seen \cup {items[frame.idx + 1]}]
    /\ rows' = IF items[frame.idx + 1] \in frame.seen \/ ~web[items[frame.idx + 1]].ok
               THEN rows
               ELSE Append(rows, scrape_detail(web[items[frame.idx + 1]]))
    /\ UNCHANGED <<callVars, outfile, today, poolVars, procVars, web, fs>>

\* lines 140-142
SchoolNoRows ==
    /\ pc \in {"start", "crawl"}
    /\ frame.idx = Len(items)
    /\ rows = <<>>
    /\ pc' = "returned"
    /\ UNCHANGED <<callVars, tableVars, poolVars, procVars, ioVars>>

\* lines 144-154: the frame, drop_duplicates(subset=["title"]), school_dramas_all.csv
SchoolWrite ==
    /\ pc = "crawl"
    /\ frame.idx = Len(items)
    /\ rows # <<>>
    /\ outfile' = <<DropDuplicateTitles(SchoolFrame(rows), {})>>
    /\ pc' = "returned"
    /\ UNCHANGED <<callVars, rows, today, poolVars, procVars, ioVars>>

NextSchool == \/ SchoolCategoryRaises
              \/ SchoolScrape
              \/ SchoolNoRows
              \/ SchoolWrite
SpecSchool == InitSchool /\ [][NextSchool]_vars

\* the links main crawled whose page came back
Crawled == {items[i] : i \in 1..frame.idx} \cap {u \in SchoolUrls : web[u].ok}

\* C20: once school_dramas_all.csv is written it holds, for each crawled page,
\* a row with the title, the genre and the broadcaster scrape_detail extracted
\* from that page.
C20_GenreWritten ==
    (pc = "returned" /\ outfile # <<>>) =>
        \A u \in Crawled :
            \E i \in DOMAIN outfile[1] :
                /\ outfile[1][i].title = scrape_detail(web[u]).title
                /\ outfile[1][i].genre_name = scrape_detail(web[u]).genre
                /\ outfile[1][i].channel_name = scrape_detail(web[u]).broadcaster

(***************************************************************************)
(* episode_bild.py: atomic_write_csv.  fs holds the two paths of the call: *)
(* out_path and the temporary file, each <<>> when missing and <<lines>>   *)
(* when present.  frame holds df (the lines to write) and the content of   *)
(* out_path when the call began.                                           *)
(***************************************************************************)
MaxFileLines == 2
FileContents == UNION {[1..n -> {<<"GA">>, <<"a">>}] : n \in 0..MaxFileLines}

InitAtomic == /\ pc = "call"
              /\ \E old \in {<<>>} \cup {<<c>> : c \in FileContents}, df \in FileContents :
                     /\ fs = [out |-> old, tmp |-> <<>>]
                     /\ frame = [df |-> df, old |-> old]
              /\ web = <<>>
              /\ NoCall
              /\ NoTable
              /\ NoPool
              /\ NoProc

\* line 97: NamedTemporaryFile("w", delete=False) creates the empty file
AtomicOpenTmp ==
    /\ pc = "call"
    /\ fs' = [fs EXCEPT !.tmp = <<<<>>>>]
    /\ pc' = "tmp_open"
    /\ UNCHANGED <<callVars, tableVars, poolVars, procVars, web, frame>>

\* line 99: df.to_csv(tmp) writes the next line
AtomicWriteLine ==
    /\ pc = "tmp_open"
    /\ Len(fs.tmp[1]) < Len(frame.df)
    /\ fs' = [fs EXCEPT !.tmp = <<Append(fs.tmp[1], frame.df[Len(fs.tmp[1]) + 1])>>]
    /\ UNCHANGED <<pc, callVars, tableVars, poolVars, procVars, web, frame>>

\* the with block ends: the temporary file is closed
AtomicCloseTmp ==
    /\ pc = "tmp_open"
    /\ Len(fs.tmp[1]) = Len(frame.df)
    /\ pc' = "closed"
    /\ UNCHANGED <<callVars, tableVars, poolVars, procVars, ioVars>>

\* lines 101-102: if out_path.exists(): os.remove(out_path)
AtomicRemove ==
    /\ pc = "closed"
    /\ fs' = [fs EXCEPT !.out = <<>>]
    /\ pc' = "move"
    /\ UNCHANGED <<callVars, tableVars, poolVars, procVars, web, frame>>

\* line 103, shutil.move on one filesystem: os.rename
AtomicRename ==
    /\ pc = "move"
    /\ fs' = [out |-> fs.tmp, tmp |-> <<>>]
    /\ pc' = "returned"
    /\ UNCHANGED <<callVars, tableVars, poolVars, procVars, web, frame>>

\* line 103, shutil.move when the temporary directory is on another
\* filesystem: out_path is opened for writing, ...
AtomicCopyOpen ==
    /\ pc = "move"
    /\ fs' = [fs EXCEPT !.out = <<<<>>>>]
    /\ pc' = "copy"
    /\ UNCHANGED <<callVars, tableVars, poolVars, procVars, web, frame>>

\* ... the lines are copied, ...
AtomicCopyLine ==
    /\ pc = "copy"
    /\ Len(fs.out[1]) < Len(fs.tmp[1])
    /\ fs' = [fs EXCEPT !.out = <<Append(fs.out[1], fs.tmp[1][Len(fs.out[1]) + 1])>>]
    /\ UNCHANGED <<pc, callVars, tableVars, poolVars, procVars, web, frame>>

\* ... and the temporary file is unlinked
AtomicCopyDone ==
    /\ pc = "copy"
    /\ Len(fs.out[1]) = Len(fs.tmp[1])
    /\ fs' = [fs EXCEPT !.tmp = <<>>]
    /\ pc' = "returned"
    /\ UNCHANGED <<callVars, tableVars, poolVars, procVars, web, frame>>

\* the process dies between two steps of the call
AtomicCrash ==
    /\ pc \in {"call", "tmp_open", "closed", "move", "copy"}
    /\ pc' = "crashed"
    /\ UNCHANGED <<callVars, tableVars, poolVars, procVars, ioVars>>

NextAtomic == \/ AtomicOpenTmp
              \/ AtomicWriteLine
              \/ AtomicCloseTmp
              \/ AtomicRemove
              \/ AtomicRename
              \/ AtomicCopyOpen
              \/ AtomicCopyLine
              \/ AtomicCopyDone
              \/ AtomicCrash
SpecAtomic == InitAtomic /\ [][NextAtomic]_vars

\* C17: when out_path held a file as atomic_write_csv began, then at every
\* point of the call, and after a crash at any step, out_path exists and holds
\* the whole previous content or the whole new content.
C17_OldOrNewContent ==
    frame.old # <<>> => fs.out \in {frame.old, <<frame.df>>}

(***************************************************************************)
(* episode_bild.py: fetch_episodes_for_title.  The three base documents of *)
(* a title are named by their place in title_cands: 1 "{t} (드라마)",      *)
(* 2 "{t}(드라마)", 3 "{t}"; a URL is the document and whether it is its   *)
(* "/방영 목록" subpage.  web maps a URL to the answer of the site; frame  *)
(* holds the locals of the call.                                           *)
(***************************************************************************)
title_cands == <<1, 2, 3>>
BaseUrl(cand) == [doc |-> cand, sub |-> FALSE]
SubUrl(base_url) == [doc |-> base_url.doc, sub |-> TRUE]

\* get_html_with_status, lines 84-91, on the answer of session.get: the
\* text only with status 200, None for both after a RequestException.  html
\* is <<>> for None and for the empty text, which "if html:" both reads as
\* false, and <<doc>> for the text of a document
get_html_with_status(answer) ==
    IF answer.raised THEN [html |-> <<>>, status |-> <<>>]
    ELSE [html |-> IF answer.status = 200 THEN answer.text ELSE <<>>,
          status |-> <<answer.status>>]

\* the document of an html text that is not empty
DocOf(html) == html[1]

DocWithRows == <<<<[episode_no |-> <<"1">>, title |-> <<"GA">>, description |-> <<>>]>>, <<>>>>
DocWithoutRows == <<<<>>, <<>>>>
\* answers: an exception, 404, 200 with an empty body, 200 with a document.
\* text is <<>> for "" and <<doc>> for the html of a document
Answers == {[raised |-> TRUE, status |-> 0, text |-> <<>>],
            [raised |-> FALSE, status |-> 404, text |-> <<DocWithoutRows>>],
            [raised |-> FALSE, status |-> 200, text |-> <<>>],
            [raised |-> FALSE, status |-> 200, text |-> <<DocWithoutRows>>],
            [raised |-> FALSE, status |-> 200, text |-> <<DocWithRows>>]}
Urls == [doc : {1, 2, 3}, sub : BOOLEAN]

InitFetch == /\ pc = "base"
             /\ web \in [Urls -> Answers]
             /\ frame = [tried |-> <<>>, cand |-> 1, base_ok |-> <<>>, base_url |-> <<>>,
                         parsed |-> <<>>]
             /\ fs = <<>>
             /\ NoCall
             /\ NoTable
             /\ NoPool
             /\ NoProc

\* one round of the loop over title_cands, lines 301-310
FetchBaseCheck ==
    /\ pc = "base"
    /\ frame.cand <= Len(title_cands)
    /\ LET url == BaseUrl(title_cands[frame.cand])
           html == get_html_with_status(web[url]).html
       IN  IF html # <<>>
           THEN /\ frame' = [frame EXCEPT !.tried = Append(@, url),
                                          !.base_ok = html, !.base_url = <<url>>]
                /\ pc' = "subpage"
           ELSE /\ frame' = [frame EXCEPT !.tried = Append(@, url), !.cand = @ + 1]
                /\ pc' = "base"
    /\ UNCHANGED <<callVars, tableVars, poolVars, procVars, web, fs>>

\* lines 312-313: no candidate gave a text
FetchNoBase ==
    /\ pc = "base"
    /\ frame.cand > Len(title_cands)
    /\ result' = [rows |-> <<>>, tried |-> frame.tried]
    /\ pc' = "returned"
    /\ UNCHANGED <<text, tableVars, poolVars, procVars, ioVars>>

\* lines 315-322: the subpage of the confirmed document, parsed when it has text
FetchSubpage ==
    /\ pc = "subpage"
    /\ LET url == SubUrl(frame.base_url[1])
           html == get_html_with_status(web[url]).html
       IN  IF html # <<>>
           THEN /\ frame' = [frame EXCEPT !.tried = Append(@, url),
                                          !.parsed = Append(@, url)]
                /\ IF parse_document_for_episodes(DocOf(html)) # <<>>
                   THEN /\ result' = [rows |-> parse_document_for_episodes(DocOf(html)),
                                      tried |-> Append(frame.tried, url)]
                        /\ pc' = "returned"
                   ELSE /\ pc' = "sections"
                        /\ UNCHANGED result
           ELSE /\ frame' = [frame EXCEPT !.tried = Append(@, url)]
                /\ pc' = "sections"
                /\ UNCHANGED result
    /\ UNCHANGED <<text, tableVars, poolVars, procVars, web, fs>>

\* lines 324-329: the sections of the base document
FetchParseBase ==
    /\ pc = "sections"
    /\ frame' = [frame EXCEPT !.parsed = Append(@, frame.base_url[1])]
    /\ result' = [rows |-> parse_document_for_episodes(DocOf(frame.base_ok)),
                  tried |-> frame.tried]
    /\ pc' = "returned"
    /\ UNCHANGED <<text, tableVars, poolVars, procVars, web, fs>>

NextFetch == \/ FetchBaseCheck
             \/ FetchNoBase
             \/ FetchSubpage
             \/ FetchParseBase
SpecFetch == InitFetch /\ [][NextFetch]_vars

\* the base documents that answer HTTP 200
Answering200 == {c \in 1..3 : ~web[BaseUrl(c)].raised /\ web[BaseUrl(c)].status = 200}
FirstAnswering == CHOOSE c \in Answering200 : \A d \in Answering200 : c <= d
SubpageRows(c) ==
    IF get_html_with_status(web[SubUrl(BaseUrl(c))]).html = <<>> THEN <<>>
    ELSE parse_document_for_episodes(DocOf(get_html_with_status(web[SubUrl(BaseUrl(c))]).html))

\* C19: the requests of a call are the base documents in order up to the first
\* one answering HTTP 200, then the subpage of that document once; all three
\* base documents and no subpage when none answers 200; the base document is
\* parsed only when its subpage is missing or gives no rows; at most 4 requests.
C19_RequestOrder ==
    pc = "returned" =>
        /\ Len(result.tried) <= 4
        /\ IF Answering200 = {}
           THEN result.tried = [i \in 1..3 |-> BaseUrl(i)]
           ELSE /\ result.tried = [i \in 1..FirstAnswering + 1 |->
                                      IF i <= FirstAnswering THEN BaseUrl(i)
                                      ELSE SubUrl(BaseUrl(FirstAnswering))]
                /\ (\E i \in DOMAIN frame.parsed : ~frame.parsed[i].sub)
                       => SubpageRows(FirstAnswering) = <<>>

(***************************************************************************)
(* The pool of drama_person.py, person.py and workspace/actor.py with more *)
(* tasks than worker threads.  items are the list page's entries, web[i]   *)
(* tells whether the detail page of entry i can be fetched; every row is   *)
(* the same row, and entry i has i % 3 of them.                            *)
(***************************************************************************)
MaxPoolItems == 9
PooledScripts == {"drama_person", "person", "actor"}
CastRow == [title |-> <<"GA">>, person_name |-> <<"a">>]
PageRows(i) == [k \in 1..(i % 3) |-> CastRow]

InitPool == /\ pc = "start"
            /\ script \in PooledScripts
            /\ items = [i \in 1..MaxPoolItems |-> i]
            /\ web \in {[i \in 1..MaxPoolItems |-> "page"],
                        [i \in 1..MaxPoolItems |-> IF i = 2 THEN "fails" ELSE "page"]}
            /\ futs = <<>>
            /\ yielded = {}
            /\ rows = <<>>
            /\ outfile = <<>>
            /\ today = <<>>
            /\ columns = {}
            /\ exit_status = <<>>
            /\ frame = <<>>
            /\ fs = <<>>
            /\ NoCall

\* futs = [ex.submit(...) for it in items]
PoolSubmit ==
    /\ pc = "start"
    /\ futs' = [i \in DOMAIN items |-> [state |-> "queued", value |-> <<>>]]
    /\ pc' = "pool"
    /\ UNCHANGED <<callVars, tableVars, items, yielded, procVars, ioVars>>

\* ThreadPoolExecutor(max_workers=WORKERS): a worker thread, of at most
\* WORKERS, takes the oldest queued task
PoolStart(i) ==
    /\ pc \in {"pool", "unwind"}
    /\ futs[i].state = "queued"
    /\ \A j \in 1..(i - 1) : futs[j].state # "queued"
    /\ Cardinality(Running) < WORKERS
    /\ futs' = [futs EXCEPT ![i].state = "running"]
    /\ UNCHANGED <<pc, callVars, tableVars, items, yielded, procVars, ioVars>>

\* the task ends: it returns the rows of its page; when the page fails,
\* scrape_detail of drama_person.py raises, and the task functions of
\* person.py and actor.py catch the exception and return []
PoolFinish(i) ==
    /\ pc \in {"pool", "unwind"}
    /\ futs[i].state = "running"
    /\ futs' = [futs EXCEPT ![i] =
                   IF web[items[i]] = "page" THEN [state |-> "returned", value |-> PageRows(items[i])]
                   ELSE IF script = "drama_person" THEN [state |-> "raised", value |-> <<>>]
                   ELSE [state |-> "returned", value |-> <<>>]]
    /\ UNCHANGED <<pc, callVars, tableVars, items, yielded, procVars, ioVars>>

\* for fut in as_completed(futs): rows.extend(fut.result())
MainCollect(i) ==
    /\ pc = "pool"
    /\ i \notin yielded
    /\ futs[i].state = "returned"
    /\ rows' = rows \o futs[i].value
    /\ yielded' = yielded \cup {i}
    /\ UNCHANGED <<pc, callVars, outfile, today, items, futs, procVars, ioVars>>

\* fut.result() raises the task's exception again: nothing in the three
\* loops catches it (drama_person.py has try/finally), the loop is left
MainReraise(i) ==
    /\ pc = "pool"
    /\ i \notin yielded
    /\ futs[i].state = "raised"
    /\ yielded' = yielded \cup {i}
    /\ pc' = "unwind"
    /\ UNCHANGED <<callVars, tableVars, items, futs, procVars, ioVars>>

\* the with block ends after the exception: shutdown(wait=True) waits for
\* every task, then the exception ends main
PoolUnwind ==
    /\ pc = "unwind"
    /\ Finished = DOMAIN futs
    /\ pc' = "exited"
    /\ exit_status' = <<1>>
    /\ UNCHANGED <<callVars, tableVars, poolVars, script, columns, ioVars>>

\* the loop has seen every future and the with block ends
PoolLoopEnd ==
    /\ pc = "pool"
    /\ yielded = DOMAIN futs
    /\ pc' = "collected"
    /\ UNCHANGED <<callVars, tableVars, poolVars, procVars, ioVars>>

NextPool == \/ PoolSubmit
            \/ \E i \in DOMAIN futs : PoolStart(i)
            \/ \E i \in DOMAIN futs : PoolFinish(i)
            \/ \E i \in DOMAIN futs : MainCollect(i)
            \/ \E i \in DOMAIN futs : MainReraise(i)
            \/ PoolUnwind
            \/ PoolLoopEnd
SpecPool == InitPool /\ [][NextPool]_vars

\* the number of rows the tasks of S returned
RECURSIVE RowsOf(_)
RowsOf(S) ==
    IF S = {} THEN 0
    ELSE LET i == CHOOSE i \in S : TRUE
         IN  (IF futs[i].state = "returned" THEN Len(futs[i].value) ELSE 0) + RowsOf(S \ {i})

\* C16: at most WORKERS tasks run at any moment; the shared list holds the
\* rows of the tasks main has taken from as_completed, each once, and nothing
\* else; and when all tasks are complete and main has left the pool, the list
\* is the multiset union of the tasks' results.
C16_PoolCollectsAll ==
    /\ Cardinality(Running) <= WORKERS
    /\ \A n \in DOMAIN rows : rows[n] = CastRow
    /\ Len(rows) = RowsOf(yielded)
    /\ (pc \in {"collected", "exited"} /\ Finished = DOMAIN futs)
           => Len(rows) = RowsOf(DOMAIN futs)

(***************************************************************************)
(* workspace/crime.py, workspace/romance.py: iter_all_category_links.  A   *)
(* category page is the sequence of the child elements of #mw-pages; the   *)
(* content div holds the columns, a column the a elements of its list.     *)
(* web maps a URL to its page.                                             *)
(***************************************************************************)
W_next_page == <<"DA", "EUM", " ", "PE", "I", "JI">>
W_prev_page == <<"I", "JEON", " ", "PE", "I", "JI">>

\* urljoin(BASE, href)
urljoin(href) == <<"ko.wikipedia.org", href>>

Anchor(txt, href) == [tag |-> "a", text |-> txt, href |-> href, cols |-> <<>>]
Block(tag) == [tag |-> tag, text |-> <<>>, href |-> <<>>, cols |-> <<>>]
Content(cols) == [tag |-> "div", text |-> <<>>, href |-> <<>>, cols |-> cols]

\* soup.select_one(NEXT_SELECTOR): "#mw-pages > a:nth-child(3)"
NextSelected(page) ==
    IF Len(page) >= 3 /\ page[3].tag = "a" THEN <<page[3]>> ELSE <<>>

RECURSIVE Flatten(_)
Flatten(seqs) == IF seqs = <<>> THEN <<>> ELSE Head(seqs) \o Flatten(Tail(seqs))

\* soup.select("#mw-pages a"): the a elements in document order
RECURSIVE AnchorsOf(_)
AnchorsOf(page) ==
    IF page = <<>> THEN <<>>
    ELSE (IF Head(page).tag = "a" THEN <<Head(page)>>
          ELSE IF Head(page).tag = "div" THEN Flatten(Head(page).cols)
          ELSE <<>>) \o AnchorsOf(Tail(page))

\* lines 55-57: the first a with the text '다음 페이지' and a href
RECURSIVE NextByText(_)
NextByText(anchors) ==
    IF anchors = <<>> THEN <<>>
    ELSE IF clean_text(Head(anchors).text) = W_next_page /\ Head(anchors).href # <<>>
         THEN <<urljoin(Head(anchors).href[1])>>
         ELSE NextByText(Tail(anchors))

\* find_next_link, crime.py lines 47-58: <<>> for None
find_next_link(page) ==
    IF NextSelected(page) # <<>> /\ NextSelected(page)[1].href # <<>>
    THEN <<urljoin(NextSelected(page)[1].href[1])>>
    ELSE NextByText(AnchorsOf(page))

\* "#mw-pages > div > div > div:nth-child(k)" for k = 1, 2, ...: the columns
\* of the first content div
ColumnsOf(page) ==
    IF SelectSeq(page, LAMBDA el : el.tag = "div") = <<>> THEN <<>>
    ELSE SelectSeq(page, LAMBDA el : el.tag = "div")[1].cols

\* lines 80-84: the links of a column that have a href
RECURSIVE Hrefs(_)
Hrefs(anchors) ==
    IF anchors = <<>> THEN <<>>
    ELSE (IF Head(anchors).href # <<>> THEN <<urljoin(Head(anchors).href[1])>> ELSE <<>>)
             \o Hrefs(Tail(anchors))

\* lines 72-87: what one page yields
PageLinks(page) == Hrefs(Flatten(ColumnsOf(page)))

MaxCategoryPages == 3
CategoryScripts == {"crime", "romance"}
\* the article links of category page k: one column, two columns, a link
\* without href among them
ArticleColumns(k) ==
    {<<<<Anchor(<<"GA">>, <<<<"art", k, 1>>>>)>>>>,
     <<<<Anchor(<<"GA">>, <<<<"art", k, 1>>>>)>>, <<Anchor(<<"a">>, <<<<"art", k, 2>>>>)>>>>,
     <<<<Anchor(<<"GA">>, <<>>), Anchor(<<"a">>, <<<<"art", k, 2>>>>)>>>>}
\* the view of page k of n as MediaWiki lays it out: heading, summary, the
\* previous-page link (plain text on the first page), the next-page link
\* (plain text on the last page), the content, and the two links again
PrevLinks(k) == IF k > 1 THEN <<Anchor(W_prev_page, <<<<"until", k>>>>)>> ELSE <<>>
NextLinks(k, n) == IF k < n THEN <<Anchor(W_next_page, <<<<"from", k + 1>>>>)>> ELSE <<>>
CategoryView(k, n, cols) ==
    <<Block("h2"), Block("p")>> \o PrevLinks(k) \o NextLinks(k, n)
        \o <<Content(cols)>> \o PrevLinks(k) \o NextLinks(k, n)
FirstUrl == urljoin(<<"from", 1>>)
\* the site: from k shows page k, until k shows page k - 1
CategorySite(n, cols) ==
    [u \in {urljoin(<<"from", k>>) : k \in 1..n} \cup {urljoin(<<"until", k>>) : k \in 2..n} |->
        IF u[2][1] = "from" THEN CategoryView(u[2][2], n, cols[u[2][2]])
        ELSE CategoryView(u[2][2] - 1, n, cols[u[2][2] - 1])]

InitCategory ==
    /\ pc = "iter"
    /\ script \in CategoryScripts
    /\ \E n \in 1..MaxCategoryPages :
          \E cols \in [1..n -> UNION {ArticleColumns(k) : k \in 1..n}] :
              /\ \A k \in 1..n : cols[k] \in ArticleColumns(k)
              /\ web = CategorySite(n, cols)
    /\ frame = [url |-> <<FirstUrl>>, seen_urls |-> {}]
    /\ rows = <<>>
    /\ outfile = None
    /\ today = <<>>
    /\ columns = {}
    /\ exit_status = <<>>
    /\ fs = <<>>
    /\ NoCall
    /\ NoPool

\* one round of the while loop, lines 68-95: the page is fetched, its links
\* are yielded, the next URL is looked up
CategoryPage ==
    /\ pc = "iter"
    /\ frame.url # <<>>
    /\ frame.url[1] \notin frame.seen_urls
    /\ rows' = rows \o PageLinks(web[frame.url[1]])
    /\ IF PageLinks(web[frame.url[1]]) = <<>>
       THEN /\ pc' = "done"
            /\ frame' = [frame EXCEPT !.seen_urls = @ \cup {frame.url[1]}]
       ELSE /\ pc' = "iter"
            /\ frame' = [url |-> find_next_link(web[frame.url[1]]),
                         seen_urls |-> frame.seen_urls \cup {frame.url[1]}]
    /\ UNCHANGED <<callVars, outfile, today, poolVars, procVars, web, fs>>

\* the while condition fails: no next link, or a URL seen before
CategoryEnd ==
    /\ pc = "iter"
    /\ IF frame.url = <<>> THEN TRUE ELSE frame.url[1] \in frame.seen_urls
    /\ pc' = "done"
    /\ UNCHANGED <<callVars, tableVars, poolVars, procVars, ioVars>>

\* get_soup raises (HTTP error status, network error): the generator ends
\* with the exception
CategoryRaises ==
    /\ pc = "iter"
    /\ frame.url # <<>>
    /\ frame.url[1] \notin frame.seen_urls
    /\ pc' = "raised"
    /\ UNCHANGED <<callVars, tableVars, poolVars, procVars, ioVars>>

NextCategory == \/ CategoryPage
                \/ CategoryEnd
                \/ CategoryRaises
SpecCategory == InitCategory /\ [][NextCategory]_vars

\* the number of category pages of the site
SitePages == Cardinality({u \in DOMAIN web : u[2][1] = "from"})

\* C21: when the generator is exhausted, every article link of every one of
\* the N category pages chained by next-page links has been yielded.
C21_AllPagesYielded ==
    pc = "done" =>
        \A k \in 1..SitePages :
            \A i \in DOMAIN PageLinks(web[urljoin(<<"from", k>>)]) :
                \E n \in DOMAIN rows : rows[n] = PageLinks(web[urljoin(<<"from", k>>)])[i]

(***************************************************************************)
(* tmdb_person_image_batch.py and merge_person_tmdb_url.py.  fs holds the  *)
(* three CSV files as sequences of rows (<<>> for an empty cell); web maps *)
(* a name to what the TMDB person search finds.                            *)
(***************************************************************************)
\* str(val).strip()
StrStrip(v) == Strip(str_of(v))

\* name.lower() == "nan"
IsNanText(name) == name \in {<<"n", "a", "n">>}

\* tmdb_person_image_batch.main, lines 105-129: the row of one name
TmdbRow(name, found) ==
    IF found = "none" THEN [name |-> name, profile_url |-> <<>>]
    ELSE IF found = "no_profile" THEN [name |-> name, profile_url |-> <<>>]
    ELSE [name |-> name, profile_url |-> <<"t">> \o name]

\* tmdb_person_image_batch.main, lines 102-134: the rows of person_tmdb_image.csv
RECURSIVE TmdbRows(_, _)
TmdbRows(df, found) ==
    IF df = <<>> THEN <<>>
    ELSE (IF StrStrip(read_cell(Head(df).name)) = <<>> \/ IsNanText(StrStrip(read_cell(Head(df).name)))
          THEN <<>>
          ELSE <<TmdbRow(StrStrip(read_cell(Head(df).name)),
                         found[StrStrip(read_cell(Head(df).name))])>>)
             \o TmdbRows(Tail(df), found)

\* read_csv_smart and line 21: name as stripped text
ReadOrig(file) ==
    [i \in DOMAIN file |-> [name |-> StrStrip(read_cell(file[i].name)),
                            url |-> read_cell(file[i].url)]]
\* read_csv_smart, lines 22-25: name as stripped text, profile_url renamed url
ReadTmdb(file) ==
    [i \in DOMAIN file |-> [name |-> StrStrip(read_cell(file[i].name)),
                            url |-> read_cell(file[i].profile_url)]]

\* the rows of a left join for one left row: one per matching right row, one
\* with NaN when there is none
JoinRow(l, matches) ==
    IF matches = <<>> THEN <<[name |-> l.name, url |-> l.url, url_tmdb |-> NaN]>>
    ELSE [k \in DOMAIN matches |-> [name |-> l.name, url |-> l.url, url_tmdb |-> matches[k].url]]

\* pd.merge(df_orig, df_tmdb[["name", "url"]], on="name", how="left"), lines 28-34
RECURSIVE merge_left(_, _)
merge_left(left, right) ==
    IF left = <<>> THEN <<>>
    ELSE JoinRow(Head(left), SelectSeq(right, LAMBDA r : r.name = Head(left).name))
             \o merge_left(Tail(left), right)

\* Series.combine_first
combine_first(a, b) == IF a # NaN THEN a ELSE b

\* lines 37-41: with a url column the TMDB url goes first, without one the
\* TMDB url is the url column
MergedUrl(m, has_url) ==
    [i \in DOMAIN m |-> [name |-> m[i].name,
                         url |-> IF has_url THEN combine_first(m[i].url_tmdb, m[i].url)
                                 ELSE m[i].url_tmdb]]

\* merged.to_csv, line 44
MergedToCsv(m) == [i \in DOMAIN m |-> [name |-> to_cell(m[i].name), url |-> to_cell(m[i].url)]]

\* merge_person_tmdb_url.py, lines 17-44
merge_person_tmdb_url(orig, tmdb, has_url) ==
    MergedToCsv(MergedUrl(merge_left(ReadOrig(orig), ReadTmdb(tmdb)), has_url))

MaxPersons == 2
PersonNames == {<<"GA">>, <<"a">>}
\* rows of allperson.csv: a name, with a blank before it or not, and a url
\* cell that may be empty
PersonRows == [name : PersonNames \cup {<<" ", "GA">>}, url : {<<>>, <<"u">>}]

InitJoin == /\ pc = "start"
            /\ \E orig \in UNION {[1..n -> PersonRows] : n \in 0..MaxPersons} :
                   fs = [allperson |-> orig, person_tmdb_image |-> <<>>, allperson_with_tmdb |-> <<>>]
            /\ web \in [PersonNames -> {"none", "no_profile", "profile"}]
            /\ frame \in [has_url : BOOLEAN]
            /\ NoCall
            /\ NoTable
            /\ NoPool
            /\ NoProc

\* tmdb_person_image_batch.py on allperson.csv
TmdbImageBatchRun ==
    /\ pc = "start"
    /\ fs' = [fs EXCEPT !.person_tmdb_image = <<TmdbRows(fs.allperson, web)>>]
    /\ pc' = "searched"
    /\ UNCHANGED <<callVars, tableVars, poolVars, procVars, web, frame>>

\* merge_person_tmdb_url.py on the two files
MergePersonRun ==
    /\ pc = "searched"
    /\ fs' = [fs EXCEPT !.allperson_with_tmdb =
                  <<merge_person_tmdb_url(fs.allperson, fs.person_tmdb_image[1], frame.has_url)>>]
    /\ pc' = "merged"
    /\ UNCHANGED <<callVars, tableVars, poolVars, procVars, web, frame>>

NextJoin == \/ TmdbImageBatchRun
            \/ MergePersonRun
SpecJoin == InitJoin /\ [][NextJoin]_vars

\* the TMDB urls person_tmdb_image.csv has for a name
TmdbUrls(name) ==
    {fs.person_tmdb_image[1][k].profile_url : k \in
        {k \in DOMAIN fs.person_tmdb_image[1] :
            /\ fs.person_tmdb_image[1][k].name = name
            /\ fs.person_tmdb_image[1][k].profile_url # <<>>}}

\* C22: the output has one row per row of allperson.csv, in the same order;
\* the url of a row is the TMDB url when person_tmdb_image.csv has one for the
\* name, and the original url otherwise.
C22_LeftJoinKeepsRows ==
    pc = "merged" =>
        /\ Len(fs.allperson_with_tmdb[1]) = Len(fs.allperson)
        /\ \A i \in DOMAIN fs.allperson :
               /\ i \in DOMAIN fs.allperson_with_tmdb[1]
               /\ fs.allperson_with_tmdb[1][i].name = Strip(fs.allperson[i].name)
               /\ IF TmdbUrls(Strip(fs.allperson[i].name)) # {}
                  THEN fs.allperson_with_tmdb[1][i].url \in TmdbUrls(Strip(fs.allperson[i].name))
                  ELSE frame.has_url => fs.allperson_with_tmdb[1][i].url = fs.allperson[i].url

(***************************************************************************)
(* workspace/crime.py, romance.py, horror.py: fix_genre_value.             *)
(***************************************************************************)
\* GENRE_KEYWORD of crime.py and romance.py, the literal of horror.py
GenreKeyword(scr) ==
    CASE scr = "crime" -> <<"BEOM", "JOE">>
      [] scr = "romance" -> <<"RO", "MAEN", "SEU">>
      [] scr = "horror" -> <<"GONG", "PO">>

\* str.lower() (Hangul and punctuation have no case)
LowerChar(c) ==
    CASE c = "A" -> "a" [] c = "M" -> "m" [] c = "P" -> "p" [] c = "N" -> "n" [] OTHER -> c
Lower(s) == [i \in DOMAIN s |-> LowerChar(s[i])]

W_nan == <<"n", "a", "n">>
W_none == <<"n", "o", "n", "e">>
EdgePunct == {",", ";", " "}
\* [;,]\s*[;,]+
RE_punct_run == CatAll(<<In({";", ","}), Sp, Plus(In({";", ","}))>>)
\* \s*,\s*
RE_comma == CatAll(<<Sp, Lit(","), Sp>>)

\* keyword in s
HasKeyword(s, keyword) == ReSearch(Str(keyword), s).found

\* lines 157-160: the keyword put in front, the punctuation cleaned
PrefixKeyword(s, keyword) ==
    Strip(StripChars(ReSub(RE_comma, <<",", " ">>,
                           ReSub(RE_punct_run, <<",", " ">>, keyword \o <<",", " ">> \o s)),
                     EdgePunct))

OrKeyword(fixed, keyword) == IF fixed = <<>> THEN keyword ELSE fixed

\* lines 153-160, on the stripped text
FixStripped(s, keyword) ==
    IF HasKeyword(StripChars(s, EdgePunct), keyword) THEN StripChars(s, EdgePunct)
    ELSE OrKeyword(PrefixKeyword(StripChars(s, EdgePunct), keyword), keyword)

\* the function without its test "if keyword in s"
fix_genre_value_always_prefix(s, keyword) ==
    IF s = NaN THEN keyword
    ELSE IF Strip(str_of(s)) = <<>> \/ Lower(Strip(str_of(s))) \in {W_nan, W_none} THEN keyword
    ELSE OrKeyword(PrefixKeyword(StripChars(Strip(str_of(s)), EdgePunct), keyword), keyword)

\* fix_genre_value, crime.py lines 139-160
fix_genre_value(s, keyword) ==
    IF s = NaN THEN keyword
    ELSE IF Strip(str_of(s)) = <<>> \/ Lower(Strip(str_of(s))) \in {W_nan, W_none} THEN keyword
    ELSE FixStripped(Strip(str_of(s)), keyword)

MaxGenreLen == 4
GenreScripts == {"crime", "romance", "horror"}
\* genre texts: pieces in a row, each a letter, a comma, a semicolon, a
\* blank, a tab or the keyword of the script
GenrePieces(keyword) == {<<"a">>, <<",">>, <<";">>, <<" ">>, <<"TAB">>, keyword}
GenreTexts(keyword) ==
    {Flatten(ps) : ps \in UNION {[1..n -> GenrePieces(keyword)] : n \in 0..MaxGenreLen}}
        \cup {NaN, W_nan, <<"N", "a", "N">>, <<" ", "n", "a", "n">>, W_none,
              <<"n", "a", "n", ",">>}

InitGenre == /\ pc = "call"
             /\ \E scr \in GenreScripts :
                    /\ script = scr
                    /\ text \in GenreTexts(GenreKeyword(scr))
             /\ result = None
             /\ columns = {}
             /\ exit_status = <<>>
             /\ NoTable
             /\ NoPool
             /\ NoIO

CallFixGenreValue ==
    /\ pc = "call"
    /\ result' = fix_genre_value(text, GenreKeyword(script))
    /\ pc' = "returned"
    /\ UNCHANGED <<text, tableVars, poolVars, procVars, ioVars>>

NextGenre == CallFixGenreValue
SpecGenre == InitGenre /\ [][NextGenre]_vars

\* the input is missing, blank, 'nan' or 'none'
GenreMissing(s) ==
    s = NaN \/ Strip(s) = <<>> \/ Lower(Strip(s)) \in {W_nan, W_none}
\* the characters of a text that are no comma, semicolon or whitespace
GenreLetters(s) == Filter(s, Char \ ({",", ";"} \cup Space))
\* a text whose only whitespace is the blank
OnlyBlanks(s) == \A i \in DOMAIN s : s[i] \in Space => s[i] = " "

\* C23 as stated: the result contains the keyword; a missing input gives the
\* keyword; an input with the keyword comes back with its edge punctuation
\* trimmed; any other input g comes back as keyword, ", ", g; and the function
\* applied to its result gives the result.
C23_AsStated ==
    pc = "returned" =>
        /\ HasKeyword(result, GenreKeyword(script))
        /\ GenreMissing(text) => result = GenreKeyword(script)
        /\ (~GenreMissing(text) /\ HasKeyword(text, GenreKeyword(script)))
               => result = StripChars(Strip(text), EdgePunct)
        /\ (~GenreMissing(text) /\ ~HasKeyword(text, GenreKeyword(script)))
               => result = GenreKeyword(script) \o <<",", " ">> \o text
        /\ fix_genre_value(result, GenreKeyword(script)) = result

\* C23, amended: the result contains the keyword; a missing input gives the
\* keyword; an input with the keyword comes back with its edges trimmed; any
\* other input g comes back as the keyword followed, after ", ", by g with
\* its edges trimmed and its commas and semicolons cleaned: the letters of g
\* in their order, and g itself when g has no comma, semicolon or edge
\* whitespace; and the function is idempotent on texts whose only whitespace
\* is the blank.
C23_FixGenreValue ==
    pc = "returned" =>
        /\ HasKeyword(result, GenreKeyword(script))
        /\ GenreMissing(text) => result = GenreKeyword(script)
        /\ (~GenreMissing(text) /\ HasKeyword(text, GenreKeyword(script)))
               => result = StripChars(Strip(text), EdgePunct)
        /\ (~GenreMissing(text) /\ ~HasKeyword(text, GenreKeyword(script)))
               => /\ GenreLetters(result) = GenreKeyword(script) \o GenreLetters(text)
                  /\ GenreLetters(text) # <<>> =>
                         SubSeq(result, 1, Len(GenreKeyword(script)) + 2)
                             = GenreKeyword(script) \o <<",", " ">>
                  /\ GenreLetters(text) = <<>> => result = GenreKeyword(script)
                  /\ (Strip(text) = text /\ ~Contains(text, ",") /\ ~Contains(text, ";"))
                         => result = GenreKeyword(script) \o <<",", " ">> \o text
        /\ (text # NaN /\ OnlyBlanks(text))
               => fix_genre_value(result, GenreKeyword(script)) = result

\* a genre list without blanks after its comma has been given the keyword
C23_Witness ==
    /\ pc = "returned"
    /\ script = "crime"
    /\ text = <<"a", ",", "a">>
    /\ result = <<"BEOM", "JOE", ",", " ", "a", ",", " ", "a">>

-----------------------------------------------------------------------------
\* src/drama_images.py: process_title, one image per drama title.
\*
\* A document of the wiki is either closed (the request gave no HTML) or
\* opened, and an opened document has no usable og:image, an og:image whose
\* download fails, or an og:image whose download succeeds.  web.docs gives
\* the state of each document a run can ask for and web.cue what the cue
\* detection finds on the base page.

ImageDocs == {"no_og", "og_fails", "og_loads"}
DocStates == {"closed"} \cup ImageDocs
BasePage == "base"
drama_variants == <<"variant_spaced", "variant_plain">>
SearchDrama == "search_drama"
SearchVariants == <<"search_variant_spaced", "search_variant_plain">>
DocKeys == {BasePage, SearchDrama}
               \cup { drama_variants[i] : i \in DOMAIN drama_variants }
               \cup { SearchVariants[i] : i \in DOMAIN SearchVariants }
CueKinds == {"none", "user_sel", "fallback"}

\* extract_og_image (77-86): the image address of a document, None without
\* a usable og:image; the address names the page it was found on
extract_og_image(page_url, html) ==
    IF html = "no_og" THEN <<>> ELSE <<<<"og", page_url>>>>

\* download_image (188-200): whether the image of the document was written
download_image(html) == html = "og_loads"

\* save_og_as (202-214)
save_og_as(title_disp, page_url, html, note_tag) ==
    LET img == extract_og_image(page_url, html)
    IN  IF img = <<>>
        THEN [title |-> title_disp, status |-> "FAIL",
              note |-> note_tag \o <<"no_og_image">>,
              page_url |-> <<page_url>>, image_url |-> <<>>,
              saved_path |-> <<>>]
        ELSE IF ~download_image(html)
        THEN [title |-> title_disp, status |-> "FAIL",
              note |-> note_tag \o <<"download_failed">>,
              page_url |-> <<page_url>>, image_url |-> img,
              saved_path |-> <<>>]
        ELSE [title |-> title_disp, status |-> "OK",
              note |-> note_tag,
              page_url |-> <<page_url>>, image_url |-> img,
              saved_path |-> <<<<"images", title_disp>>>>]

\* open_w_exact (168-173) and search_and_open_first (175-186): the HTML of
\* the document, None when any request on the way failed
OpenDoc(key) == IF web.docs[key] = "closed" THEN <<>> ELSE <<web.docs[key]>>

\* has_user_cue_or_fallback (115-138)
has_user_cue_or_fallback(how) == <<how # "none", how>>

\* one call of save_og_as, as the run remembers it
Attempt(step, key, res) == [step |-> step, page |-> key, status |-> res.status]

ImageWebs ==
    { [docs |-> d, cue |-> c] :
        d \in [DocKeys -> DocStates], c \in CueKinds }

InitImages == /\ pc = "open_base"
              /\ text = <<"BAM">>
              /\ result = None
              /\ web \in { w \in ImageWebs :
                             w.docs[BasePage] = "closed" => w.cue = "none" }
              /\ frame = [i |-> 1, tried |-> <<>>]
              /\ fs = <<>>
              /\ NoTable
              /\ NoPool
              /\ NoProc

\* 0) the base document (221-225)
ImagesOpenBase ==
    /\ pc = "open_base"
    /\ LET html0 == OpenDoc(BasePage)
           cue == has_user_cue_or_fallback(web.cue)
       IN  IF html0 # <<>> /\ cue[1]
           THEN LET res == save_og_as(text, BasePage, html0[1],
                                      <<"exact_base", cue[2]>>)
                IN  /\ result' = res
                    /\ frame' = [frame EXCEPT
                           !.tried = Append(@, Attempt("exact_base", BasePage, res))]
                    /\ pc' = "returned"
           ELSE /\ pc' = "variants"
                /\ UNCHANGED <<result, frame>>
    /\ UNCHANGED <<text, web, fs, tableVars, poolVars, procVars>>

\* 1) the '(drama)' variants, one turn of the loop (228-232)
ImagesVariant ==
    /\ pc = "variants"
    /\ IF frame.i > Len(drama_variants)
       THEN /\ pc' = "search"
            /\ frame' = [frame EXCEPT !.i = 1]
            /\ UNCHANGED result
       ELSE LET dv == drama_variants[frame.i]
                html1 == OpenDoc(dv)
            IN  IF html1 # <<>>
                THEN LET res == save_og_as(text, dv, html1[1], <<"drama:exact">>)
                     IN  /\ result' = res
                         /\ frame' = [frame EXCEPT
                                !.tried = Append(@, Attempt("drama:exact", dv, res))]
                         /\ pc' = "returned"
                ELSE /\ frame' = [frame EXCEPT !.i = @ + 1]
                     /\ UNCHANGED <<pc, result>>
    /\ UNCHANGED <<text, web, fs, tableVars, poolVars, procVars>>

\* 2) the search for '<title> drama' (235-237)
ImagesSearch ==
    /\ pc = "search"
    /\ LET html2 == OpenDoc(SearchDrama)
       IN  IF html2 # <<>>
           THEN LET res == save_og_as(text, SearchDrama, html2[1],
                                      <<"drama:search_exact">>)
                IN  /\ result' = res
                    /\ frame' = [frame EXCEPT
                           !.tried = Append(@, Attempt("drama:search_exact",
                                                       SearchDrama, res))]
                    /\ pc' = "returned"
           ELSE /\ pc' = "search_variants"
                /\ UNCHANGED <<result, frame>>
    /\ UNCHANGED <<text, web, fs, tableVars, poolVars, procVars>>

\* 3) the search for each variant, one turn of the loop (240-243)
ImagesSearchVariant ==
    /\ pc = "search_variants"
    /\ IF frame.i > Len(SearchVariants)
       THEN /\ pc' = "last_resort"
            /\ UNCHANGED <<result, frame>>
       ELSE LET dv == SearchVariants[frame.i]
                html3 == OpenDoc(dv)
            IN  IF html3 # <<>>
                THEN LET res == save_og_as(text, dv, html3[1],
                                           <<"drama:search_exact2">>)
                     IN  /\ result' = res
                         /\ frame' = [frame EXCEPT
                                !.tried = Append(@, Attempt("drama:search_exact2",
                                                            dv, res))]
                         /\ pc' = "returned"
                ELSE /\ frame' = [frame EXCEPT !.i = @ + 1]
                     /\ UNCHANGED <<pc, result>>
    /\ UNCHANGED <<text, web, fs, tableVars, poolVars, procVars>>

\* 4) the og:image of the base document, then the plain failure (246-255)
ImagesLastResort ==
    /\ pc = "last_resort"
    /\ LET html0 == OpenDoc(BasePage)
           note0 == IF html0 = <<>> THEN "open_detail_failed" ELSE "OK"
           nomatch == [title |-> text, status |-> "FAIL",
                       note |-> <<"no_match", note0>>,
                       page_url |-> <<BasePage>>, image_url |-> <<>>,
                       saved_path |-> <<>>]
       IN  IF html0 # <<>>
           THEN LET res_try == save_og_as(text, BasePage, html0[1],
                                          <<"fallback:og_only">>)
                IN  /\ result' = IF res_try.status = "OK" THEN res_try
                                 ELSE nomatch
                    /\ frame' = [frame EXCEPT
                           !.tried = Append(@, Attempt("fallback:og_only",
                                                       BasePage, res_try))]
           ELSE /\ result' = nomatch
                /\ UNCHANGED frame
    /\ pc' = "returned"
    /\ UNCHANGED <<text, web, fs, tableVars, poolVars, procVars>>

NextImages == \/ ImagesOpenBase
              \/ ImagesVariant
              \/ ImagesSearch
              \/ ImagesSearchVariant
              \/ ImagesLastResort
SpecImages == InitImages /\ [][NextImages]_vars

\* the steps of the run that called save_og_as on the page
TriedOn(key) == { j \in DOMAIN frame.tried : frame.tried[j].page = key }
\* every step before the last resort failed to save an image
EarlierAllFailed ==
    \A j \in DOMAIN frame.tried :
        frame.tried[j].step # "fallback:og_only" => frame.tried[j].status = "FAIL"

\* C24: process_title reports FAIL for a title whose base page opened only
\* after the og:image of the base page has been tried: when every earlier
\* step failed to save an image and the base page has a downloadable
\* og:image, the result is OK with the image of the base page.
C24_LastResortBeforeFail ==
    (pc = "returned" /\ web.docs[BasePage] # "closed") =>
        /\ result.status = "FAIL" => TriedOn(BasePage) # {}
        /\ (EarlierAllFailed /\ web.docs[BasePage] = "og_loads") =>
               /\ result.status = "OK"
               /\ result.image_url = <<<<"og", BasePage>>>>

-----------------------------------------------------------------------------
\* src/workspace/drama_images.py: process_title without search and cue
\* detection.  save_og_as, extract_og_image and download_image are the same
\* functions as in src/drama_images.py.

\* open_w_exact (96-102) on the documents of a site
OpenIn(docs, key) == IF docs[key] = "closed" THEN <<>> ELSE <<docs[key]>>

\* the variants whose document opens, in the order of the loop (150-152)
OpenVariants(docs) ==
    SelectSeq(drama_variants, LAMBDA dv : OpenIn(docs, dv) # <<>>)

\* 2) the base document (147, 160-169)
BaseFallback(title, docs) ==
    LET html0 == OpenIn(docs, BasePage)
        note0 == IF html0 = <<>> THEN "open_detail_failed" ELSE "OK"
    IN  IF html0 # <<>>
        THEN LET res0 == save_og_as(title, BasePage, html0[1], <<"base_page">>)
             IN  IF res0.status = "OK" THEN res0
                 ELSE [title |-> title, status |-> "FAIL",
                       note |-> <<"no_image_on_base">>,
                       page_url |-> <<BasePage>>, image_url |-> <<>>,
                       saved_path |-> <<>>]
        ELSE [title |-> title, status |-> "FAIL",
              note |-> <<"open_base_failed", note0>>,
              page_url |-> <<BasePage>>, image_url |-> <<>>,
              saved_path |-> <<>>]

\* process_title that returns the result of the variant document whatever
\* its status, as src/drama_images.py does
process_title_returns_variant(title, docs) ==
    LET found == OpenVariants(docs)
    IN  IF found # <<>>
        THEN save_og_as(title, found[1], OpenIn(docs, found[1])[1],
                        <<"drama:exact">>)
        ELSE BaseFallback(title, docs)

\* process_title (137-169)
process_title(title, docs) ==
    LET found == OpenVariants(docs)
    IN  IF found = <<>>
        THEN BaseFallback(title, docs)
        ELSE LET res == save_og_as(title, found[1], OpenIn(docs, found[1])[1],
                                   <<"drama:exact">>)
             IN  IF res.status = "OK" THEN res
                 ELSE BaseFallback(title, docs)

SimpleKeys == {BasePage} \cup { drama_variants[i] : i \in DOMAIN drama_variants }
SimpleTitles == {<<"BAM">>, <<"NAT">>}

InitSimpleImages == /\ pc = "call"
                    /\ text \in SimpleTitles
                    /\ result = None
                    /\ web \in [docs : [SimpleKeys -> DocStates]]
                    /\ frame = <<>>
                    /\ fs = <<>>
                    /\ NoTable
                    /\ NoPool
                    /\ NoProc

\* main (182): res = process_title(t)
CallProcessTitle ==
    /\ pc = "call"
    /\ result' = process_title(text, web.docs)
    /\ pc' = "returned"
    /\ UNCHANGED <<text, tableVars, poolVars, procVars, ioVars>>

NextSimpleImages == CallProcessTitle
SpecSimpleImages == InitSimpleImages /\ [][NextSimpleImages]_vars

\* the pages the run called save_og_as on: the first variant that opens
\* and, unless its image was saved, the base page when it opens
TriedPages ==
    LET found == OpenVariants(web.docs)
        first == IF found = <<>> THEN {} ELSE {found[1]}
    IN  first \cup
        IF /\ \A dv \in first : web.docs[dv] # "og_loads"
           /\ web.docs[BasePage] # "closed"
        THEN {BasePage} ELSE {}

\* C25: process_title of src/workspace/drama_images.py falls back to the
\* base page when a variant document exists but its image is missing or
\* fails to download, and when no variant exists; the result is OK exactly
\* when a tried page yielded a downloaded image, and then image_url and
\* saved_path are non-empty; every FAIL result has an empty saved_path.
C25_SimpleFallback ==
    pc = "returned" =>
        /\ ((\A i \in DOMAIN drama_variants :
                 web.docs[drama_variants[i]] # "og_loads")
             /\ web.docs[BasePage] = "og_loads")
              => /\ result.status = "OK"
                 /\ result.page_url = <<BasePage>>
                 /\ result.image_url = <<<<"og", BasePage>>>>
        /\ ((OpenVariants(web.docs) = <<>>
               \/ web.docs[OpenVariants(web.docs)[1]] # "og_loads")
             /\ web.docs[BasePage] # "closed")
              => BasePage \in TriedPages /\ result.page_url = <<BasePage>>
        /\ result.status \in {"OK", "FAIL"}
        /\ result.status = "OK"
              <=> \E key \in TriedPages : web.docs[key] = "og_loads"
        /\ result.status = "OK"
              => /\ result.image_url # <<>>
                 /\ result.saved_path # <<>>
                 /\ result.image_url = <<<<"og", result.page_url[1]>>>>
                 /\ web.docs[result.page_url[1]] = "og_loads"
        /\ result.status = "FAIL" => result.saved_path = <<>>

\* a variant document without an image, and the image of the base page saved
C25_Witness ==
    /\ pc = "returned"
    /\ web.docs["variant_spaced"] = "no_og"
    /\ web.docs[BasePage] = "og_loads"
    /\ result.status = "OK"
    /\ result.note = <<"base_page">>
    /\ result.saved_path = <<<<"images", text>>>>

-----------------------------------------------------------------------------
\* src/drama_weekly.py: extract_time_range on ranges whose sides are built
\* from a marker, an hour and a minute, in the colon notation and in the
\* 'H SI M BUN' notation.  frame keeps the parts the text was built from.

MeridiemMarkers == {<<>>, W_ojeon, W_ohu, W_bam, W_saebyeok, W_jeonyeok}
MeridiemHours == {1, 11, 12}
MeridiemMinutes == {0, 30}
Notations == {"colon", "korean"}

SideText(notation, am, h, mm) ==
    (IF am = <<>> THEN <<>> ELSE am \o <<" ">>)
        \o StrOf(h)
        \o (IF notation = "colon" THEN <<":">> \o Pad2(mm)
            ELSE <<"SI">> \o (IF mm = 0 THEN <<>> ELSE StrOf(mm) \o <<"BUN">>))

RangeParts ==
    [notation : Notations, sep : TimeSeparators,
     am1 : MeridiemMarkers, h1 : MeridiemHours, mm1 : MeridiemMinutes,
     am2 : MeridiemMarkers, h2 : MeridiemHours, mm2 : MeridiemMinutes]

RangeText(p) ==
    SideText(p.notation, p.am1, p.h1, p.mm1) \o p.sep
        \o SideText(p.notation, p.am2, p.h2, p.mm2)

InitMeridiem == /\ pc = "call"
                /\ frame \in RangeParts
                /\ text = RangeText(frame)
                /\ result = None
                /\ web = <<>>
                /\ fs = <<>>
                /\ NoTable
                /\ NoPool
                /\ NoProc

NextMeridiem == CallExtractTimeRange
SpecMeridiem == InitMeridiem /\ [][NextMeridiem]_vars

\* the half of the day a marker stands for
MeridiemOf(am) ==
    IF am \in {W_ojeon, W_saebyeok} THEN "AM"
    ELSE IF am \in {W_ohu, W_bam, W_jeonyeok} THEN "PM"
    ELSE None
\* an hour of the 12-hour clock in a half of the day: 12 AM is hour 0 and
\* 12 PM is hour 12
HourIn(h, half) ==
    IF half = "AM" THEN (IF h = 12 THEN 0 ELSE h)
    ELSE IF half = "PM" THEN (IF h = 12 THEN 12 ELSE h + 12)
    ELSE h
\* a range converted with the halves of its two sides, a side without a
\* half taking the half of the other side
ConvertedRange(p, half1, half2) ==
    LET right == IF half2 # None THEN half2 ELSE half1
        left == IF half1 # None THEN half1 ELSE half2
    IN  HHMM(HourIn(p.h1, left), p.mm1) \o <<"~">>
            \o HHMM(HourIn(p.h2, right), p.mm2)
\* the marker a side counts with: 'BAM 12 SI' is read as 'O JEON 12 SI'
\* (normalize_special_words), every other side keeps its marker
CountedMarker(notation, am, h) ==
    IF notation = "korean" /\ am = W_bam /\ h = 12 THEN W_ojeon ELSE am

\* C26 as stated: a range with a marker on one side is converted on both
\* sides with that marker, a range with a marker on each side with each
\* side's own, in both notations alike, 12 AM giving hour 00 and 12 PM
\* hour 12.
C26_AsStated ==
    (pc = "returned" /\ (frame.am1 # <<>> \/ frame.am2 # <<>>)) =>
        result = ConvertedRange(frame, MeridiemOf(frame.am1),
                                MeridiemOf(frame.am2))

\* C26: the same, with a side written 'BAM 12 SI' in the 'H SI M BUN'
\* notation counting as marked 'O JEON' (midnight), so that it gives hour
\* 00 and hands the AM half to an unmarked other side.
C26_MeridiemContext ==
    (pc = "returned" /\ (frame.am1 # <<>> \/ frame.am2 # <<>>)) =>
        result = ConvertedRange(frame,
                     MeridiemOf(CountedMarker(frame.notation, frame.am1, frame.h1)),
                     MeridiemOf(CountedMarker(frame.notation, frame.am2, frame.h2)))

\* '11:30 ~ O HU 12:00': the start takes the marker of the end, 12 PM stays 12
C26_Witness ==
    /\ pc = "returned"
    /\ frame.notation = "colon"
    /\ frame.am1 = <<>>
    /\ frame.am2 = W_ohu
    /\ frame.h1 = 11
    /\ frame.h2 = 12
    /\ result = <<"2", "3", ":", "3", "0", "~", "1", "2", ":", "0", "0">>

-----------------------------------------------------------------------------
\* The episode pipeline: drama_weekly.py writes drama_weekly.csv,
\* episode_bild.py reads drama.csv and writes episode_bild.csv, episode.py
\* reads both and writes episode.csv.  fs gives the header of each file,
\* <<>> for a file that is not there; frame gives how the last run of each
\* script ended, <<>> for a script that has not run.

\* drama_weekly.py line 387
WEEKLY_columns == {"title", "dow", "start_time", "runtime"}
\* episode_bild.py line 368
EPISODE_BILD_columns ==
    {"drama_title", "episode_no", "title", "broadcast_at", "description"}

InitCompose == /\ pc = "shell"
               /\ fs \in [drama : { <<h>> : h \in InputColumns },
                          weekly : {<<>>}, episode_bild : {<<>>},
                          episode : {<<>>}]
               /\ frame = [drama_weekly |-> <<>>, episode_bild |-> <<>>,
                           episode |-> <<>>]
               /\ web = <<>>
               /\ NoCall
               /\ NoTable
               /\ NoPool
               /\ NoProc

\* drama_weekly.main, lines 349-392
ComposeDramaWeekly ==
    /\ pc = "shell"
    /\ fs' = [fs EXCEPT !.weekly = <<WEEKLY_columns>>]
    /\ frame' = [frame EXCEPT !.drama_weekly = <<"written">>]
    /\ UNCHANGED <<pc, web, callVars, tableVars, poolVars, procVars>>

\* episode_bild.main, lines 334-380
ComposeEpisodeBild ==
    /\ pc = "shell"
    /\ IF FirstIn(EB_title_candidates, fs.drama[1]) = None
       THEN /\ frame' = [frame EXCEPT !.episode_bild = <<"no_title_column">>]
            /\ UNCHANGED fs
       ELSE /\ fs' = [fs EXCEPT !.episode_bild = <<EPISODE_BILD_columns>>]
            /\ frame' = [frame EXCEPT !.episode_bild = <<"written">>]
    /\ UNCHANGED <<pc, web, callVars, tableVars, poolVars, procVars>>

\* episode.main, lines 49-91
ComposeEpisode ==
    /\ pc = "shell"
    /\ IF fs.weekly = <<>> \/ fs.episode_bild = <<>>
       THEN /\ frame' = [frame EXCEPT !.episode = <<"no_file">>]
            /\ UNCHANGED fs
       ELSE IF needed1 \ fs.weekly[1] # {}
       THEN /\ frame' = [frame EXCEPT !.episode = <<"missing_column">>]
            /\ UNCHANGED fs
       ELSE IF needed2 \ fs.episode_bild[1] # {}
       THEN /\ frame' = [frame EXCEPT !.episode = <<"missing_column">>]
            /\ UNCHANGED fs
       ELSE /\ fs' = [fs EXCEPT !.episode = fs.episode_bild]
            /\ frame' = [frame EXCEPT !.episode = <<"written">>]
    /\ UNCHANGED <<pc, web, callVars, tableVars, poolVars, procVars>>

NextCompose == ComposeDramaWeekly \/ ComposeEpisodeBild \/ ComposeEpisode
SpecCompose == InitCompose /\ [][NextCompose]_vars

\* C27: the file each script writes has every column that the script
\* reading it requires: drama_weekly.csv has the columns episode.py needs
\* of it, episode_bild.csv as written by episode_bild.py has drama_title
\* and runtime_min, and episode.py run on the two files does not end with
\* the fatal missing-column exit.
C27_FilesCompose ==
    /\ fs.weekly # <<>> => needed1 \subseteq fs.weekly[1]
    /\ fs.episode_bild # <<>> => needed2 \subseteq fs.episode_bild[1]
    /\ frame.episode # <<"missing_column">>

=============================================================================
